------------------------------- MODULE MCTools --------------------------------
(***************************************************************************)
(* The two command-line programs.  They share no state, so a behaviour is  *)
(* one of deploy-targets or one of `targets`, and the other's variables    *)
(* keep a first value.                                                     *)
(***************************************************************************)
EXTENDS Deploy, Commands, TLC
CONSTANTS d1, d2, t1, g1, g2, na, nb, s1, s2, c1

Plain == [targets |-> {t1}, tls |-> "generate", profile |-> "hyprland",
          install |-> TRUE, flaw |-> "none"]
Bare == [Plain EXCEPT !.targets = {}, !.tls = "pair", !.install = FALSE]
MCAnswers == {Plain, Bare} \cup
  {[Bare EXCEPT !.flaw = f] : f \in {"listen", "unknown_profile", "tls_material"}}

Do(v, ns) == [verb |-> v, all |-> FALSE, on |-> ns, flags |-> {},
              channel |-> NoChannel, other |-> None]
All(v) == [Do(v, {}) EXCEPT !.all = TRUE]
With(c, f) == [c EXCEPT !.flags = {f}]
MCSessions == {
  {All("toggle-play"), Do("toggle-play", {na}), Do("loop", {na})},
  {All("start"), All("stop"), All("restart"), All("identify"), Do("stop", {na}),
   Do("start", {na})},
  {[With(Do("set-channel", {na}), "--restart") EXCEPT !.channel = c1],
   With(Do("clear-channel", {na}), "--restart"),
   Do("disable", {na}), With(Do("enable", {na}), "--start")},
  {[With(Do("add", {na}), "--start") EXCEPT !.channel = c1], Do("remove", {na}),
   All("start")},
  {[Do("rename", {na}) EXCEPT !.other = nb], Do("start", {na}), Do("stop", {na})}}

\* A behaviour is about deployers or about shells, so one swap serves both.
Swap == (d1 :> d2) @@ (d2 :> d1) @@ (s1 :> s2) @@ (s2 :> s1)
Symmetry == {Swap} \cup Permutations(Generation)

VARIABLE tool
MCInit ==
  /\ DeployInit /\ CommandsInit
  /\ \/ tool = "deploy" /\ known = {} /\ session = CHOOSE c \in Sessions : TRUE
     \/ tool = "commands" /\ root = "absent"
MCNext ==
  \/ tool = "deploy" /\ DeployNext /\ UNCHANGED <<commandsVars, tool>>
  \/ tool = "commands" /\ CommandsNext /\ UNCHANGED <<deployVars, tool>>
MCSpec == MCInit /\ [][MCNext]_<<deployVars, commandsVars, tool>>
=============================================================================
