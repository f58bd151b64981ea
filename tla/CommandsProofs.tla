---------------------------- MODULE CommandsProofs ----------------------------
(***************************************************************************)
(* Proofs about Commands, for every set of names, shells and channels, for *)
(* every set of commands and for everything that may go wrong.             *)
(***************************************************************************)
EXTENDS Commands, SequenceTheorems, TLAPS

(***************************************************************************)
(* The calls of a command.  No script waits for a launch by itself, and    *)
(* only `rename` renames.                                                  *)
(***************************************************************************)
CallName == {"start", "stop", "quit", "restart", "enable", "disable", "disable now",
             "remove", "forget", "add", "resolve", "set-channel"} \cup MpvCall
CallsOf(c) == IF c.verb = "rename" THEN {"rename"} ELSE CallName

LEMMA ConsTurns ==
  ASSUME NEW S, NEW a, NEW q \in Seq(S)
  PROVE  <<a>> \o q # <<>> /\ Head(<<a>> \o q) = a /\ Tail(<<a>> \o q) = q
  OBVIOUS

LEMMA OneCall == ASSUME NEW S, NEW a \in S PROVE <<a>> \in Seq(S) /\ <<a>> # <<>>
  OBVIOUS

LEMMA TwoCalls ==
  ASSUME NEW S, NEW a \in S, NEW b \in S
  PROVE  <<a, b>> \in Seq(S) /\ <<a, b>> # <<>>
  OBVIOUS

LEMMA ScriptOK ==
  ASSUME NEW c \in Command, Valid(c), NEW n
  PROVE  Script(c, n) \in Seq(CallsOf(c)) /\ Script(c, n) # <<>>
  <1> DEFINE S == CallsOf(c)
  <1>1. c.verb \in Verb /\ (c.verb = "set-channel" => c.channel # NoChannel)
    BY DEF Command, Valid
  <1>2. CASE c.verb = "rename"
    BY <1>2 DEF Script, CallsOf
  <1>3. CASE c.verb # "rename"
    <2>1. {"add", "resolve", "set-channel", "start", "enable", "restart"} \subseteq S
      BY <1>3 DEF CallsOf, CallName
    <2>2. SetCalls(c) \in Seq(S) /\ StartCalls(c) \in Seq(S)
      BY <2>1, OneCall, TwoCalls, EmptySeq DEF SetCalls, StartCalls
    <2>3. CASE c.verb = "add"
      <3>1. <<"add">> \in Seq(S)
        BY <2>1, OneCall
      <3>2. <<"add">> \o SetCalls(c) \in Seq(S) /\ <<"add">> \o SetCalls(c) # <<>>
        BY <2>2, <3>1, ConcatProperties, ConsTurns
      <3>3. QED
        BY <2>2, <2>3, <3>2, ConcatProperties, ConcatEqualIffEmpty DEF Script, AddCalls
    <2>4. CASE c.verb = "enable"
      <3>1. <<"enable">> \in Seq(S)
        BY <2>1, OneCall
      <3>2. QED
        BY <2>2, <2>4, <3>1, ConcatProperties, ConsTurns DEF Script
    <2>5. CASE c.verb \in {"set-channel", "clear-channel"}
      <3> DEFINE first == IF c.verb = "set-channel" THEN SetCalls(c) ELSE <<"set-channel">>
                 then == IF "--restart" \in c.flags THEN <<"restart">> ELSE <<>>
      <3>1. first \in Seq(S) /\ then \in Seq(S) /\ first # <<>>
        BY <1>1, <2>1, <2>2, <2>5, OneCall, TwoCalls, EmptySeq DEF SetCalls
      <3>2. Script(c, n) = first \o then
        BY <2>5 DEF Script
      <3>3. QED
        BY <3>1, <3>2, ConcatProperties, ConcatEqualIffEmpty
    <2>6. CASE c.verb \notin {"add", "enable", "set-channel", "clear-channel"}
      <3>1. \E a \in S : Script(c, n) = <<a>>
        BY <1>1, <1>3, <2>6
           DEF Script, Together, Verb, Lifecycle, Admin, MpvVerb, CallsOf, CallName, MpvCall
      <3>2. QED
        BY <3>1, OneCall
    <2>7. QED
      BY <2>3, <2>4, <2>5, <2>6
  <1>4. QED
    BY <1>2, <1>3

(***************************************************************************)
(* Types.  CommandsTypeOK in three parts, with what a running shell holds. *)
(***************************************************************************)
DaemonOK ==
  /\ known \subseteq Name /\ disabled \subseteq known /\ stopped \subseteq known
  /\ online \subseteq known /\ launching \subseteq known
  /\ channel \in [Name -> Channel \cup {NoChannel}]
  /\ rescue \in [Name -> Channel \cup {NoChannel, None}]
  /\ plays \in [Name -> Channel \cup {NoChannel, None}]
  /\ set \in [Name -> [Property -> {"on", "off"}]]
  /\ seen \in [Name -> [Property -> {"on", "off", "unknown"}]]

ShellOK(s) ==
  /\ cmd[s] = None <=> outcome[s] = "none"
  /\ cmd[s] # None => cmd[s] \in session /\ cmd[s] \in Command /\ Valid(cmd[s])
  /\ DOMAIN work[s] # {} \/ at[s] # None <=> outcome[s] = "running"
  /\ at[s] = None <=> calls[s] = <<>>
  /\ loads[s] # None <=> Call(s, "await")
  /\ \A n \in DOMAIN work[s] :
       n \in Name /\ work[s][n] \in Seq(CallsOf(cmd[s])) /\ work[s][n] # <<>>
  /\ calls[s] # <<>> =>
       /\ Head(calls[s]) \in CallsOf(cmd[s]) \cup {"await"}
       /\ Tail(calls[s]) \in Seq(CallsOf(cmd[s]))

ShellsOK ==
  /\ session \in Sessions
  /\ at \in [Shell -> Name \cup {None}]
  /\ outcome \in [Shell -> {"none", "running", "ok", "failed"}]
  /\ loads \in [Shell -> Channel \cup {NoChannel, None}]
  /\ DOMAIN cmd = Shell /\ DOMAIN work = Shell /\ DOMAIN calls = Shell
  /\ cmd = [s \in Shell |-> cmd[s]] /\ work = [s \in Shell |-> work[s]]
  /\ calls = [s \in Shell |-> calls[s]]
  /\ \A s \in Shell : ShellOK(s)

HistoryOK ==
  /\ calm \in Shell \cup {None}
  /\ was \in [Name -> [Property -> {"on", "off"}]] \cup {None}

CommandsInv == DaemonOK /\ ShellsOK /\ HistoryOK

LEMMA CallsClean == ASSUME NEW c PROVE "await" \notin CallsOf(c)
  BY DEF CallsOf, CallName, MpvCall

\* The other shells go on as they are.
Others(s) ==
  \A r \in Shell \ {s} :
    /\ cmd'[r] = cmd[r] /\ work'[r] = work[r] /\ at'[r] = at[r] /\ calls'[r] = calls[r]
    /\ loads'[r] = loads[r] /\ outcome'[r] = outcome[r]

LEMMA OthersOK ==
  ASSUME ShellsOK, NEW s \in Shell, Others(s), session' = session, NEW r \in Shell \ {s}
  PROVE  ShellOK(r)'
  <1>1. /\ cmd'[r] = cmd[r] /\ work'[r] = work[r] /\ at'[r] = at[r] /\ calls'[r] = calls[r]
        /\ loads'[r] = loads[r] /\ outcome'[r] = outcome[r]
    BY DEF Others
  <1>2. ShellOK(r)
    BY DEF ShellsOK
  <1>3. QED
    BY <1>1, <1>2 DEF ShellOK, Call

LEMMA ProceedOK ==
  ASSUME ShellsOK, NEW s \in Shell, at[s] # None, NEW rest \in Seq(CallsOf(cmd[s])),
         Proceed(s, rest), session' = session
  PROVE  ShellsOK'
  <1>1. /\ cmd' = cmd /\ work' = work /\ calls'[s] = rest /\ loads'[s] = None
        /\ at'[s] = IF rest = <<>> THEN None ELSE at[s]
        /\ outcome'[s] = IF rest = <<>> /\ DOMAIN work[s] = {} THEN "ok" ELSE outcome[s]
        /\ Others(s)
    BY DEF Proceed, ShellsOK, Others
  <1>2. outcome[s] = "running" /\ ShellOK(s)
    BY DEF ShellsOK, ShellOK
  <1>3. rest # <<>> => /\ Head(rest) \in CallsOf(cmd[s]) /\ Head(rest) # "await"
                       /\ Tail(rest) \in Seq(CallsOf(cmd[s]))
    BY HeadTailProperties, CallsClean
  <1>4. ShellOK(s)'
    BY <1>1, <1>2, <1>3 DEF ShellOK, Call
  <1>5. /\ at' \in [Shell -> Name \cup {None}]
        /\ outcome' \in [Shell -> {"none", "running", "ok", "failed"}]
        /\ loads' \in [Shell -> Channel \cup {NoChannel, None}]
        /\ DOMAIN calls' = Shell /\ calls' = [r \in Shell |-> calls'[r]]
    BY DEF Proceed, ShellsOK
  <1>6. QED
    BY <1>1, <1>4, <1>5, OthersOK DEF ShellsOK

LEMMA DoneOK ==
  ASSUME ShellsOK, NEW s \in Shell, at[s] # None, Done(s), session' = session
  PROVE  ShellsOK'
  <1>1. Tail(calls[s]) \in Seq(CallsOf(cmd[s]))
    BY DEF ShellsOK, ShellOK
  <1>2. QED
    BY <1>1, ProceedOK DEF Done

LEMMA InsteadOK ==
  ASSUME ShellsOK, NEW s \in Shell, at[s] # None, NEW first \in Seq(CallsOf(cmd[s])),
         Instead(s, first), session' = session
  PROVE  ShellsOK'
  <1>1. Tail(calls[s]) \in Seq(CallsOf(cmd[s]))
    BY DEF ShellsOK, ShellOK
  <1>2. first \o Tail(calls[s]) \in Seq(CallsOf(cmd[s]))
    BY <1>1, ConcatProperties
  <1>3. QED
    BY <1>2, ProceedOK DEF Instead

LEMMA FailOK ==
  ASSUME ShellsOK, NEW s \in Shell, at[s] # None, Fail(s), session' = session
  PROVE  ShellsOK'
  <1>1. /\ cmd' = cmd /\ work'[s] = <<>> /\ calls'[s] = <<>> /\ loads'[s] = None
        /\ at'[s] = None /\ outcome'[s] = "failed" /\ Others(s)
    BY DEF Fail, ShellsOK, Others
  <1>2. outcome[s] = "running" /\ ShellOK(s)
    BY DEF ShellsOK, ShellOK
  <1>3. ShellOK(s)'
    BY <1>1, <1>2 DEF ShellOK, Call
  <1>4. /\ at' \in [Shell -> Name \cup {None}]
        /\ outcome' \in [Shell -> {"none", "running", "ok", "failed"}]
        /\ loads' \in [Shell -> Channel \cup {NoChannel, None}]
        /\ DOMAIN calls' = Shell /\ calls' = [r \in Shell |-> calls'[r]]
        /\ DOMAIN work' = Shell /\ work' = [r \in Shell |-> work'[r]]
    BY DEF Fail, ShellsOK
  <1>5. QED
    BY <1>1, <1>3, <1>4, OthersOK DEF ShellsOK

\* The history is kept, forgotten, or written by Issue.
LEMMA HistoryKept ==
  ASSUME HistoryOK, UNCHANGED <<calm, was>> \/ Disturb
  PROVE  HistoryOK'
  BY DEF HistoryOK, Disturb

LEMMA ChosenOK ==
  ASSUME DaemonOK, NEW c \in Command
  PROVE  Chosen(c) \subseteq Name
  BY DEF DaemonOK, Chosen, Command

LEMMA IssueOK ==
  ASSUME CommandsInv, NEW s \in Shell, Issue(s)
  PROVE  CommandsInv'
  <1>1. PICK c \in session :
          /\ Valid(c)
          /\ cmd' = [cmd EXCEPT ![s] = c]
          /\ work' = [work EXCEPT ![s] = [n \in Chosen(c) |-> Script(c, n)]]
          /\ outcome' = [outcome EXCEPT ![s] = IF Chosen(c) = {} THEN "ok" ELSE "running"]
    BY DEF Issue
  <1>2. c \in Command /\ c # None
    BY CommandsAssumption DEF CommandsInv, ShellsOK
  <1>3. /\ cmd'[s] = c /\ work'[s] = [n \in Chosen(c) |-> Script(c, n)]
        /\ outcome'[s] = IF Chosen(c) = {} THEN "ok" ELSE "running"
        /\ UNCHANGED <<at, calls, loads, session>> /\ Others(s)
    BY <1>1 DEF Issue, CommandsInv, ShellsOK, Others
  <1>4. /\ outcome[s] # "running" /\ at[s] = None /\ calls[s] = <<>> /\ ~Call(s, "await")
        /\ loads[s] = None
    BY DEF Issue, CommandsInv, ShellsOK, ShellOK, Call
  <1>5. \A n \in Chosen(c) :
          n \in Name /\ Script(c, n) \in Seq(CallsOf(c)) /\ Script(c, n) # <<>>
    BY <1>1, <1>2, ChosenOK, ScriptOK DEF CommandsInv
  <1>6. ShellOK(s)'
    BY <1>1, <1>2, <1>3, <1>4, <1>5 DEF ShellOK, Call
  <1>7. ShellsOK'
    BY <1>1, <1>3, <1>6, OthersOK DEF CommandsInv, ShellsOK
  <1>8. DaemonOK' /\ HistoryOK'
    BY DEF Issue, flagVars, mpvVars, CommandsInv, DaemonOK, HistoryOK
  <1>9. QED
    BY <1>7, <1>8 DEF CommandsInv

LEMMA TakeOK ==
  ASSUME CommandsInv, NEW s \in Shell, Take(s)
  PROVE  CommandsInv'
  <1>1. PICK n \in DOMAIN work[s] :
          /\ at' = [at EXCEPT ![s] = n]
          /\ calls' = [calls EXCEPT ![s] = work[s][n]]
          /\ work' = [work EXCEPT ![s] = [m \in DOMAIN @ \ {n} |-> @[m]]]
    BY DEF Take
  <1>2. /\ at'[s] = n /\ calls'[s] = work[s][n]
        /\ work'[s] = [m \in DOMAIN work[s] \ {n} |-> work[s][m]]
        /\ UNCHANGED <<cmd, loads, outcome, session>> /\ Others(s)
    BY <1>1 DEF Take, CommandsInv, ShellsOK, Others
  <1>3. /\ n \in Name /\ n # None /\ outcome[s] = "running" /\ at[s] = None
        /\ work[s][n] \in Seq(CallsOf(cmd[s])) /\ work[s][n] # <<>>
        /\ loads[s] = None
    BY CommandsAssumption DEF Take, CommandsInv, ShellsOK, ShellOK, Call
  <1>4. /\ Head(work[s][n]) \in CallsOf(cmd[s]) /\ Head(work[s][n]) # "await"
        /\ Tail(work[s][n]) \in Seq(CallsOf(cmd[s]))
    BY <1>3, HeadTailProperties, CallsClean
  <1>5. ShellOK(s)
    BY DEF CommandsInv, ShellsOK
  <1>6. ShellOK(s)'
    BY <1>2, <1>3, <1>4, <1>5 DEF ShellOK, Call
  <1>7. ShellsOK'
    BY <1>1, <1>2, <1>3, <1>6, OthersOK DEF CommandsInv, ShellsOK
  <1>8. DaemonOK' /\ HistoryOK'
    BY DEF Take, flagVars, mpvVars, CommandsInv, DaemonOK, HistoryOK
  <1>9. QED
    BY <1>7, <1>8 DEF CommandsInv

\* What every call rests on.
LEMMA CallAt ==
  ASSUME CommandsInv, NEW s \in Shell, at[s] # None
  PROVE  /\ at[s] \in Name /\ calls[s] # <<>> /\ outcome[s] = "running"
         /\ Head(calls[s]) \in CallsOf(cmd[s]) \cup {"await"} /\ cmd[s] \in Command /\ Valid(cmd[s])
  BY DEF CommandsInv, ShellsOK, ShellOK

LEMMA LaunchedOK ==
  ASSUME DaemonOK, NEW n \in Name, NEW c \in Channel \cup {NoChannel, None}, Launched(n, c),
         UNCHANGED <<known, disabled, stopped, channel, seen>>,
         rescue' \in [Name -> Channel \cup {NoChannel, None}]
  PROVE  DaemonOK'
  <1>1. Fresh \in [Property -> {"on", "off"}]
    BY DEF Fresh
  <1>2. QED
    BY <1>1 DEF DaemonOK, Launched

LEMMA GoneOK ==
  ASSUME DaemonOK, NEW n \in Name, Gone(n), UNCHANGED <<known, disabled, stopped, channel, rescue>>
  PROVE  DaemonOK'
  <1>1. /\ Fresh \in [Property -> {"on", "off"}]
        /\ Unseen \in [Property -> {"on", "off", "unknown"}]
    BY DEF Fresh, Unseen
  <1>2. QED
    BY <1>1 DEF DaemonOK, Gone

LEMMA LifecycleOK ==
  ASSUME CommandsInv, NEW s \in Shell,
         \/ Refused(s) \/ Struck(s) \/ Start(s) \/ Launches(s) \/ LaunchFails(s)
         \/ Stop(s) \/ Quits(s) \/ Restart(s) \/ RestartDisabled(s)
  PROVE  CommandsInv'
  <1>0. DaemonOK /\ ShellsOK /\ HistoryOK
    BY DEF CommandsInv
  <1>1. /\ at[s] # None /\ at[s] \in Name
        /\ Head(calls[s]) \in CallsOf(cmd[s]) \cup {"await"}
    <2>1. at[s] # None
      BY DEF Refused, Struck, Start, Launches, LaunchFails, Stop, Quits, Restart,
             RestartDisabled, Call
    <2>2. QED
      BY <2>1, CallAt
  <1>2. session' = session /\ (UNCHANGED <<calm, was>> \/ Disturb)
    BY DEF Refused, Struck, Start, Launches, LaunchFails, Stop, Quits, Restart,
           RestartDisabled, External
  <1>3. HistoryOK'
    BY <1>0, <1>2, HistoryKept
  <1>4. CASE Refused(s) \/ Struck(s)
    <2>1. ShellsOK'
      BY <1>0, <1>1, <1>2, <1>4, FailOK DEF Refused, Struck
    <2>2. DaemonOK'
      BY <1>0, <1>4 DEF Refused, Struck, External, flagVars, mpvVars, DaemonOK
    <2>3. QED
      BY <1>3, <2>1, <2>2 DEF CommandsInv
  <1>5. CASE Start(s)
    <2>1. at[s] \in known
      BY <1>1, <1>5 DEF Start, Call, Rejected
    <2>2. DaemonOK'
      BY <1>0, <1>5, <2>1 DEF Start, External, mpvVars, DaemonOK
    <2>3. CASE Done(s)
      BY <1>0, <1>1, <1>2, <1>3, <2>2, <2>3, DoneOK DEF CommandsInv
    <2>4. CASE ~Done(s)
      <3>1. /\ calls' = [calls EXCEPT ![s] = <<"await">> \o Tail(@)]
            /\ loads' = [loads EXCEPT ![s] = channel[at[s]]]
            /\ UNCHANGED <<cmd, work, at, outcome>>
        BY <1>5, <2>4 DEF Start
      <3>2. /\ calls'[s] = <<"await">> \o Tail(calls[s]) /\ loads'[s] = channel[at[s]]
            /\ Others(s) /\ Tail(calls[s]) \in Seq(CallsOf(cmd[s])) /\ ShellOK(s)
        BY <1>0, <1>1, <3>1, CallAt DEF CommandsInv, ShellsOK, ShellOK, Others
      <3>3. /\ calls'[s] # <<>> /\ Head(calls'[s]) = "await"
            /\ Tail(calls'[s]) = Tail(calls[s])
        BY <3>2, ConsTurns
      <3>4. channel[at[s]] \in Channel \cup {NoChannel} /\ channel[at[s]] # None
        BY <1>0, <1>1, CommandsAssumption DEF DaemonOK
      <3>5. ShellOK(s)'
        BY <1>1, <1>2, <3>1, <3>2, <3>3, <3>4 DEF ShellOK, Call
      <3>6. ShellsOK'
        BY <1>0, <1>2, <3>1, <3>2, <3>4, <3>5, OthersOK DEF ShellsOK
      <3>7. QED
        BY <1>3, <2>2, <3>6 DEF CommandsInv
    <2>5. QED
      BY <2>3, <2>4
  <1>6. CASE Launches(s)
    <2>1. ShellsOK'
      BY <1>0, <1>1, <1>2, <1>6, DoneOK, FailOK DEF Launches
    <2>2. /\ loads[s] \in Channel \cup {NoChannel, None}
          /\ rescue' \in [Name -> Channel \cup {NoChannel, None}]
      BY <1>0, <1>6 DEF Launches, ShellsOK, DaemonOK
    <2>3. DaemonOK'
      BY <1>0, <1>1, <1>6, <2>2, LaunchedOK DEF Launches
    <2>4. QED
      BY <1>3, <2>1, <2>3 DEF CommandsInv
  <1>7. CASE LaunchFails(s)
    <2>1. ShellsOK'
      BY <1>0, <1>1, <1>2, <1>7, FailOK DEF LaunchFails
    <2>2. DaemonOK'
      BY <1>0, <1>7 DEF LaunchFails, External, mpvVars, DaemonOK
    <2>3. QED
      BY <1>3, <2>1, <2>2 DEF CommandsInv
  <1>8. CASE Stop(s)
    <2>1. at[s] \in known /\ Head(calls[s]) = "stop"
      BY <1>1, <1>8 DEF Stop, Call, Rejected
    <2>2. <<"quit">> \in Seq(CallsOf(cmd[s]))
      BY <1>1, <2>1, OneCall DEF CallsOf, CallName
    <2>3. ShellsOK'
      BY <1>0, <1>1, <1>2, <1>8, <2>2, DoneOK, InsteadOK DEF Stop
    <2>4. DaemonOK'
      BY <1>0, <1>8, <2>1 DEF Stop, External, mpvVars, DaemonOK
    <2>5. QED
      BY <1>3, <2>3, <2>4 DEF CommandsInv
  <1>9. CASE Quits(s)
    <2>1. ShellsOK'
      BY <1>0, <1>1, <1>2, <1>9, DoneOK, FailOK DEF Quits
    <2>2. DaemonOK'
      BY <1>0, <1>1, <1>9, GoneOK DEF Quits
    <2>3. QED
      BY <1>3, <2>1, <2>2 DEF CommandsInv
  <1>10. CASE Restart(s)
    <2>1. Head(calls[s]) = "restart"
      BY <1>10 DEF Restart, Call
    <2>2. RestartCalls(at[s]) \in Seq(CallsOf(cmd[s]))
      BY <1>1, <2>1, OneCall, TwoCalls DEF CallsOf, CallName, RestartCalls
    <2>3. ShellsOK'
      BY <1>0, <1>1, <1>2, <1>10, <2>2, InsteadOK DEF Restart
    <2>4. DaemonOK'
      BY <1>0, <1>10 DEF Restart, External, flagVars, mpvVars, DaemonOK
    <2>5. QED
      BY <1>3, <2>3, <2>4 DEF CommandsInv
  <1>11. CASE RestartDisabled(s)
    <2>1. ShellsOK'
      BY <1>0, <1>1, <1>2, <1>11, DoneOK DEF RestartDisabled
    <2>2. /\ Fresh \in [Property -> {"on", "off"}]
          /\ Unseen \in [Property -> {"on", "off", "unknown"}]
      BY DEF Fresh, Unseen
    <2>3. at[s] \in known
      BY <1>1, <1>11 DEF RestartDisabled, Call, Rejected
    <2>4. DaemonOK'
      BY <1>0, <1>11, <2>2, <2>3 DEF RestartDisabled, DaemonOK
    <2>5. QED
      BY <1>3, <2>1, <2>4 DEF CommandsInv
  <1>12. QED
    BY <1>4, <1>5, <1>6, <1>7, <1>8, <1>9, <1>10, <1>11

LEMMA MovedKeeps ==
  ASSUME NEW S, NEW K \in SUBSET S, NEW f \in SUBSET K, NEW n, NEW m \in S
  PROVE  Moved(f, n, m) \subseteq Moved(K, n, m) /\ Moved(K, n, m) \subseteq S
  BY DEF Moved

LEMMA AdministrationOK ==
  ASSUME CommandsInv, NEW s \in Shell,
         \/ EnableTarget(s) \/ StopFirst(s) \/ DisableTarget(s) \/ Resolve(s) \/ SetChannel(s)
         \/ Add(s) \/ Forget(s) \/ Rename(s) \/ MpvCommand(s)
  PROVE  CommandsInv'
  <1>0. DaemonOK /\ ShellsOK /\ HistoryOK
    BY DEF CommandsInv
  <1>1. /\ at[s] # None /\ at[s] \in Name /\ cmd[s] \in Command /\ Valid(cmd[s])
        /\ Head(calls[s]) \in CallsOf(cmd[s]) \cup {"await"}
    <2>1. at[s] # None
      BY DEF EnableTarget, StopFirst, DisableTarget, Resolve, SetChannel, Add, Forget, Rename,
             MpvCommand, Call
    <2>2. QED
      BY <2>1, CallAt
  <1>2. /\ session' = session /\ UNCHANGED <<calm, was>>
        /\ cmd[s].channel \in Channel \cup {NoChannel} /\ cmd[s].other \in Name \cup {None}
    BY <1>1 DEF EnableTarget, StopFirst, DisableTarget, Resolve, SetChannel, Add, Forget, Rename,
                MpvCommand, External, Command
  <1>3. HistoryOK'
    BY <1>0, <1>2, HistoryKept
  <1>4. CASE StopFirst(s)
    <2>1. Head(calls[s]) \in {"disable", "remove"}
      BY <1>4 DEF StopFirst, Call
    <2>2. {"stop", "disable now", "forget"} \subseteq CallsOf(cmd[s])
      BY <1>1, <2>1 DEF CallsOf, CallName
    <2>3. PICK last \in {"disable now", "forget"} :
            Instead(s, (IF at[s] \in stopped THEN <<>> ELSE <<"stop">>) \o <<last>>)
      BY <1>4 DEF StopFirst
    <2>4. /\ (IF at[s] \in stopped THEN <<>> ELSE <<"stop">>) \in Seq(CallsOf(cmd[s]))
          /\ <<last>> \in Seq(CallsOf(cmd[s]))
      BY <2>2, OneCall, EmptySeq
    <2>5. (IF at[s] \in stopped THEN <<>> ELSE <<"stop">>) \o <<last>> \in Seq(CallsOf(cmd[s]))
      BY <2>4, ConcatProperties
    <2>6. ShellsOK'
      BY <1>0, <1>1, <1>2, <2>3, <2>5, InsteadOK
    <2>7. DaemonOK'
      BY <1>0, <1>4 DEF StopFirst, External, flagVars, mpvVars, DaemonOK
    <2>8. QED
      BY <1>3, <2>6, <2>7 DEF CommandsInv
  <1>5. ASSUME Done(s), DaemonOK' PROVE CommandsInv'
    BY <1>0, <1>1, <1>2, <1>3, <1>5, DoneOK DEF CommandsInv
  <1>6. CASE EnableTarget(s) \/ DisableTarget(s) \/ Resolve(s) \/ SetChannel(s)
    <2>1. Call(s, "disable now") /\ ~Rejected(s) => at[s] \in known
      BY DEF Call, Rejected
    <2>2. DaemonOK'
      BY <1>0, <1>2, <1>6, <2>1
         DEF EnableTarget, DisableTarget, Resolve, SetChannel, External, flagVars, mpvVars, DaemonOK
    <2>3. QED
      BY <1>5, <1>6, <2>2 DEF EnableTarget, DisableTarget, Resolve, SetChannel
  <1>7. CASE Add(s)
    <2>1. (IF cmd[s].other = None THEN NoChannel ELSE channel[cmd[s].other])
            \in Channel \cup {NoChannel}
      BY <1>0, <1>2 DEF DaemonOK
    <2>2. DaemonOK'
      BY <1>0, <1>1, <1>7, <2>1 DEF Add, External, mpvVars, DaemonOK
    <2>3. QED
      BY <1>5, <1>7, <2>2 DEF Add
  <1>8. CASE Forget(s)
    <2>1. Unseen \in [Property -> {"on", "off", "unknown"}]
      BY DEF Unseen
    <2>2. DaemonOK'
      BY <1>0, <1>8, <2>1 DEF Forget, mpvVars, DaemonOK
    <2>3. QED
      BY <1>5, <1>8, <2>2 DEF Forget
  <1>9. CASE Rename(s)
    <2>1. cmd[s].verb = "rename" /\ cmd[s].other \in Name
      <3>1. Head(calls[s]) = "rename"
        BY <1>9 DEF Rename, Call
      <3>2. cmd[s].verb = "rename"
        BY <1>1, <3>1 DEF CallsOf, CallName, MpvCall
      <3>3. QED
        BY <1>1, <1>2, <3>2 DEF Valid
    <2>2. Unseen \in [Property -> {"on", "off", "unknown"}]
      BY DEF Unseen
    <2>3. /\ channel' \in [Name -> Channel \cup {NoChannel}]
          /\ seen' \in [Name -> [Property -> {"on", "off", "unknown"}]]
      BY <1>0, <1>1, <1>9, <2>1, <2>2 DEF Rename, DaemonOK
    <2>4. /\ known' = Moved(known, at[s], cmd[s].other)
          /\ disabled' = Moved(disabled, at[s], cmd[s].other)
          /\ stopped' = Moved(stopped, at[s], cmd[s].other)
          /\ online' = Moved(online, at[s], cmd[s].other)
          /\ launching' = Moved(launching, at[s], cmd[s].other)
          /\ UNCHANGED <<rescue, plays, set>>
      BY <1>9 DEF Rename, mpvVars
    <2>5. /\ known' \subseteq Name /\ disabled' \subseteq known' /\ stopped' \subseteq known'
          /\ online' \subseteq known' /\ launching' \subseteq known'
      <3>1. known \in SUBSET Name
        BY <1>0 DEF DaemonOK
      <3>2. ASSUME NEW f \in SUBSET known
            PROVE  Moved(f, at[s], cmd[s].other) \subseteq known' /\ known' \subseteq Name
        BY <2>1, <2>4, <3>1, MovedKeeps
      <3>3. \A f \in {disabled, stopped, online, launching} : f \in SUBSET known
        BY <1>0 DEF DaemonOK
      <3>4. QED
        BY <2>4, <3>2, <3>3
    <2>6. DaemonOK'
      BY <1>0, <2>3, <2>4, <2>5 DEF DaemonOK
    <2>7. QED
      BY <1>5, <1>9, <2>6 DEF Rename
  <1>10. CASE MpvCommand(s)
    <2>1. ASSUME NEW v \in [Property -> {"on", "off"}], NEW c
          PROVE  Effect(c, v) \in [Property -> {"on", "off"}]
      BY DEF Effect, Opposite
    <2>2. set' \in [Name -> [Property -> {"on", "off"}]]
      BY <1>0, <1>10, <2>1 DEF MpvCommand, DaemonOK
    <2>3. DaemonOK'
      BY <1>0, <1>10, <2>2 DEF MpvCommand, flagVars, DaemonOK
    <2>4. QED
      BY <1>5, <1>10, <2>3 DEF MpvCommand
  <1>11. QED
    BY <1>4, <1>6, <1>7, <1>8, <1>9, <1>10

LEMMA ByItselfOK ==
  ASSUME CommandsInv, NEW n \in Name,
         \/ Observe(n) \/ MpvExits(n) \/ RescueStarts(n) \/ RescueLaunches(n) \/ RescueFails(n)
  PROVE  CommandsInv'
  <1>0. DaemonOK /\ ShellsOK /\ HistoryOK
    BY DEF CommandsInv
  <1>1. UNCHANGED <<session, shellVars>> /\ (UNCHANGED <<calm, was>> \/ Disturb)
    BY DEF Observe, MpvExits, RescueStarts, RescueLaunches, RescueFails
  <1>2. ShellsOK' /\ HistoryOK'
    BY <1>0, <1>1, HistoryKept DEF shellVars, ShellsOK, ShellOK, Call
  <1>3. CASE Observe(n)
    BY <1>0, <1>2, <1>3 DEF Observe, flagVars, mpvVars, DaemonOK, CommandsInv
  <1>4. CASE MpvExits(n)
    BY <1>0, <1>2, <1>4, GoneOK DEF MpvExits, CommandsInv
  <1>5. CASE RescueStarts(n) \/ RescueFails(n)
    BY <1>0, <1>2, <1>5
       DEF RescueStarts, RescueFails, Expected, mpvVars, DaemonOK, CommandsInv
  <1>6. CASE RescueLaunches(n)
    <2>1. /\ rescue[n] \in Channel \cup {NoChannel, None}
          /\ rescue' \in [Name -> Channel \cup {NoChannel, None}]
      BY <1>0, <1>6 DEF RescueLaunches, DaemonOK
    <2>2. QED
      BY <1>0, <1>2, <1>6, <2>1, LaunchedOK DEF RescueLaunches, CommandsInv
  <1>7. QED
    BY <1>3, <1>4, <1>5, <1>6

LEMMA CommandsStep ==
  ASSUME CommandsInv, [CommandsNext]_commandsVars
  PROVE  CommandsInv'
  <1>1. CASE UNCHANGED commandsVars
    BY <1>1 DEF commandsVars, flagVars, mpvVars, shellVars, CommandsInv, DaemonOK, ShellsOK,
                ShellOK, Call, HistoryOK
  <1>2. QED
    BY <1>1, IssueOK, TakeOK, LifecycleOK, AdministrationOK, ByItselfOK DEF CommandsNext

LEMMA CommandsHold == CommandsSpec => []CommandsInv
  <1>1. CommandsInit => CommandsInv
    <2> SUFFICES ASSUME CommandsInit PROVE CommandsInv
      OBVIOUS
    <2>1. /\ Fresh \in [Property -> {"on", "off"}]
          /\ Unseen \in [Property -> {"on", "off", "unknown"}]
      BY DEF Fresh, Unseen
    <2>2. DaemonOK /\ HistoryOK
      BY <2>1 DEF CommandsInit, DaemonOK, HistoryOK
    <2>3. ASSUME NEW s \in Shell PROVE ShellOK(s)
      BY <2>3 DEF CommandsInit, ShellOK, Call
    <2>4. QED
      BY <2>2, <2>3 DEF CommandsInit, CommandsInv, ShellsOK
  <1>2. QED
    BY <1>1, CommandsStep, PTL DEF CommandsSpec

\* Commands is well typed, and what a shell holds fits its progress: calls while
\* it has a target in hand, targets only while it runs, and a channel that its
\* launch has read exactly while it waits for that launch - whatever commands
\* the shells issue and whatever goes wrong in between.
THEOREM CommandsTyped == CommandsSpec => []CommandsTypeOK
  <1>1. CommandsInv => CommandsTypeOK
    BY DEF CommandsInv, DaemonOK, ShellsOK, ShellOK, HistoryOK, CommandsTypeOK
  <1>2. QED
    BY <1>1, CommandsHold, PTL

(***************************************************************************)
(* A command issued at rest.  While nothing disturbs it, no other shell has*)
(* a command under way, so every step is the shell's own, an observation,  *)
(* or the next command issued at rest.                                     *)
(***************************************************************************)
Alone == calm # None => \A r \in Shell \ {calm} : outcome[r] # "running"

Served(s) ==
  \/ Refused(s) \/ Start(s) \/ Launches(s) \/ Stop(s) \/ Quits(s)
  \/ Restart(s) \/ RestartDisabled(s) \/ EnableTarget(s) \/ StopFirst(s) \/ DisableTarget(s)
  \/ Resolve(s) \/ SetChannel(s) \/ Add(s) \/ Forget(s) \/ Rename(s) \/ MpvCommand(s)

Unmoved == UNCHANGED <<flagVars, mpvVars, session, shellVars>>

\* A target that nothing is being done to.
Settled(n) ==
  n \notin launching /\ (n \in online <=> n \in Expected) /\ (n \in online <=> Playing(n))

(***************************************************************************)
(* ChannelApplied: the calls left, and what holds of the target meanwhile. *)
(***************************************************************************)
Applies(c) ==
  \/ c.verb \in {"set-channel", "clear-channel"} /\ "--restart" \in c.flags
  \/ c.verb = "add" /\ c.channel # NoChannel

Applying(s, n, q) ==
  LET c == cmd[s] IN
  \/ /\ \/ /\ c.verb \in {"set-channel", "clear-channel"}
           /\ q \in {<<"resolve", "set-channel", "restart">>, <<"set-channel", "restart">>}
        \/ /\ c.verb = "add"
           /\ q \in {<<"add", "resolve", "set-channel">>,
                     <<"add", "resolve", "set-channel", "start">>}
     /\ Settled(n)
  \/ /\ c.verb = "add" /\ n \in stopped /\ Settled(n)
     /\ q \in {<<"resolve", "set-channel">>, <<"resolve", "set-channel", "start">>,
               <<"set-channel">>, <<"set-channel", "start">>}
  \/ /\ q \in {<<"restart">>, <<"stop", "start">>}
     /\ Settled(n) /\ channel[n] = c.channel
  \/ /\ q = <<"quit", "start">>
     /\ n \notin launching /\ channel[n] = c.channel
  \/ /\ q = <<"start">>
     /\ n \notin Busy /\ ~Playing(n) /\ channel[n] = c.channel
  \/ q = <<"await">> /\ ~Playing(n) /\ loads[s] = c.channel

ApplyOK(s) ==
  \/ outcome[s] = "failed"
  \/ /\ outcome[s] = "running" /\ at[s] = None
     /\ \E n \in Name : /\ cmd[s].on = {n} /\ DOMAIN work[s] = {n}
                        /\ Applying(s, n, work[s][n])
  \/ /\ at[s] # None /\ cmd[s].on = {at[s]} /\ DOMAIN work[s] = {}
     /\ Applying(s, at[s], calls[s])
  \/ /\ outcome[s] = "ok"
     /\ \A n \in cmd[s].on \cap online : plays[n] = cmd[s].channel

ApplyInv == \A s \in Shell : calm = s /\ Applies(cmd[s]) => ApplyOK(s)

(***************************************************************************)
(* TogglesAsShown: every target of the command has its call before it, in  *)
(* hand or behind it.                                                      *)
(***************************************************************************)
Toggles(c) == c.verb = "loop" \/ (c.verb = "toggle-play" /\ c.all)
WasPaused == \A m \in online : was[m]["pause"] = "on"

Right(c, n) ==
  IF c.verb = "loop" THEN IF was[n]["loop"] = "on" THEN "loop off" ELSE "loop on"
  ELSE IF WasPaused THEN "play" ELSE "pause"
Toggled(c, n) ==
  IF c.verb = "loop" THEN set[n]["loop"] = Opposite(was[n]["loop"])
  ELSE set[n]["pause"] = IF WasPaused THEN "off" ELSE "on"

RightCall(s, n, q) ==
  /\ q \in {<<a>> : a \in MpvCall}
  /\ n \in online => q = <<Right(cmd[s], n)>>
ToggleTargets(c) == IF c.verb = "loop" THEN c.on ELSE online

ToggleOK(s) ==
  /\ was \in [Name -> [Property -> {"on", "off"}]]
  /\ \A n \in DOMAIN work[s] : RightCall(s, n, work[s][n])
  /\ at[s] # None => RightCall(s, at[s], calls[s])
  /\ \A n \in ToggleTargets(cmd[s]) :
       \/ outcome[s] = "failed" \/ n \in DOMAIN work[s] \/ n = at[s] \/ Toggled(cmd[s], n)

ToggleInv == \A s \in Shell : calm = s /\ Toggles(cmd[s]) => ToggleOK(s)

(***************************************************************************)
(* BulkCompletes: every target but the one in hand is settled.             *)
(***************************************************************************)
Bulking(n, q) ==
  \/ q = <<"start">> /\ Settled(n) /\ n \in stopped \ disabled
  \/ q = <<"await">> /\ n \in Expected \ online /\ n \in launching
  \/ /\ q \in {<<"restart">>, <<"stop">>, <<"stop", "start">>} \cup {<<a>> : a \in MpvCall}
     /\ Settled(n) /\ n \in online
  \/ /\ q \in {<<"quit">>, <<"quit", "start">>}
     /\ n \in (online \cap stopped) \ (launching \cup disabled)

\* The calls each command comes to.
BulkPlans(v) ==
  CASE v = "start" -> {<<"start">>, <<"await">>}
    [] v = "stop" -> {<<"stop">>, <<"quit">>}
    [] v = "restart" -> {<<"restart">>, <<"stop", "start">>, <<"quit", "start">>, <<"start">>,
                         <<"await">>}
    [] OTHER -> {<<a>> : a \in MpvCall}

Left(s) == DOMAIN work[s] \cup {at[s]}

BulkOK(s) ==
  /\ cmd[s].verb \in Lifecycle \cup MpvVerb /\ outcome[s] # "failed"
  /\ \A n \in Name : n \in online <=> Playing(n)
  /\ \A n \in Name \ {at[s]} : Settled(n)
  /\ \A n \in DOMAIN work[s] :
       /\ work[s][n] \in BulkPlans(cmd[s].verb) /\ n # at[s]
       /\ Bulking(n, work[s][n])
  /\ at[s] # None => calls[s] \in BulkPlans(cmd[s].verb) /\ Bulking(at[s], calls[s])
  /\ cmd[s].verb = "start" => (known \cap stopped) \ disabled \subseteq Left(s)
  /\ cmd[s].verb = "stop" => online \subseteq Left(s)

BulkInv == \A s \in Shell : calm = s /\ cmd[s].all => BulkOK(s)

LEMMA ServedFrame ==
  ASSUME CommandsInv, NEW s \in Shell, Served(s)
  PROVE  /\ at[s] # None /\ at[s] \in Name /\ calls[s] # <<>> /\ outcome[s] = "running"
         /\ UNCHANGED <<session, calm, was>>
         /\ \A r \in Shell \ {s} : outcome'[r] = outcome[r]
  <1>1. at[s] # None
    BY DEF Served, Refused, Start, Launches, Stop, Quits, Restart, RestartDisabled, EnableTarget,
           StopFirst, DisableTarget, Resolve, SetChannel, Add, Forget, Rename, MpvCommand, Call
  <1>2. UNCHANGED <<session, calm, was>>
    BY DEF Served, Refused, Start, Launches, Stop, Quits, Restart, RestartDisabled, EnableTarget,
           StopFirst, DisableTarget, Resolve, SetChannel, Add, Forget, Rename, MpvCommand, External
  <1>3. \/ Fail(s) \/ Done(s) \/ outcome' = outcome
        \/ \E first : Instead(s, first)
    BY DEF Served, Refused, Start, Launches, Stop, Quits, Restart, RestartDisabled, EnableTarget,
           StopFirst, DisableTarget, Resolve, SetChannel, Add, Forget, Rename, MpvCommand
  <1>4. outcome' = outcome \/ \E x : outcome' = [outcome EXCEPT ![s] = x]
    BY <1>3 DEF Fail, Done, Instead, Proceed
  <1>5. \A r \in Shell \ {s} : outcome'[r] = outcome[r]
    BY <1>4 DEF CommandsInv, ShellsOK
  <1>6. QED
    BY <1>1, <1>2, <1>5, CallAt

LEMMA CalmStep ==
  ASSUME CommandsInv, Alone, [CommandsNext]_commandsVars, NEW s \in Shell, calm' = s
  PROVE  \/ Issue(s) /\ AtRest /\ was' = set
         \/ calm = s /\ was' = was /\ (Take(s) \/ Served(s) \/ Unmoved)
  <1>1. s # None
    BY CommandsAssumption
  <1>2. CASE UNCHANGED commandsVars
    BY <1>2 DEF commandsVars, Unmoved
  <1>3. ASSUME NEW r \in Shell, Issue(r) PROVE Issue(s) /\ AtRest /\ was' = set
    BY <1>1, <1>3 DEF Issue
  <1>4. ASSUME NEW r \in Shell, Take(r) \/ Served(r)
        PROVE  calm = s /\ was' = was /\ (Take(s) \/ Served(s))
    <2>1. outcome[r] = "running" /\ UNCHANGED <<calm, was>>
      BY <1>4, ServedFrame DEF Take
    <2>2. r = s
      BY <1>1, <2>1 DEF Alone
    <2>3. QED
      BY <1>4, <2>1, <2>2
  <1>5. ASSUME Disturb PROVE FALSE
    BY <1>1, <1>5 DEF Disturb
  <1>6. ASSUME NEW r \in Shell, Struck(r) \/ LaunchFails(r) PROVE FALSE
    BY <1>5, <1>6 DEF Struck, LaunchFails
  <1>7. ASSUME NEW n \in Name,
               MpvExits(n) \/ RescueStarts(n) \/ RescueLaunches(n) \/ RescueFails(n)
        PROVE  FALSE
    BY <1>5, <1>7 DEF MpvExits, RescueStarts, RescueLaunches, RescueFails
  <1>8. ASSUME NEW n \in Name, Observe(n) PROVE Unmoved /\ UNCHANGED <<calm, was>>
    BY <1>8 DEF Observe, Unmoved
  <1>9. QED
    BY <1>2, <1>3, <1>4, <1>6, <1>7, <1>8 DEF CommandsNext, Served

LEMMA AloneStep ==
  ASSUME CommandsInv, Alone, [CommandsNext]_commandsVars
  PROVE  Alone'
  <1> SUFFICES ASSUME calm' # None, NEW r \in Shell \ {calm'} PROVE outcome'[r] # "running"
    BY DEF Alone
  <1> DEFINE s == calm'
  <1>1. s \in Shell
    BY CommandsStep DEF CommandsInv, HistoryOK
  <1>2. CASE Issue(s) /\ AtRest
    BY <1>1, <1>2 DEF Issue, AtRest, CommandsInv, ShellsOK
  <1>3. CASE calm = s /\ (Take(s) \/ Served(s) \/ Unmoved)
    <2>1. outcome[r] # "running"
      BY <1>3 DEF Alone
    <2>2. outcome'[r] = outcome[r]
      BY <1>1, <1>3, ServedFrame DEF Take, Unmoved, shellVars
    <2>3. QED
      BY <2>1, <2>2
  <1>4. QED
    BY <1>1, <1>2, <1>3, CalmStep

\* What the ends of a call do to the shell.
LEMMA ProceedShape ==
  ASSUME CommandsInv, NEW s \in Shell, at[s] # None, NEW rest, Proceed(s, rest)
  PROVE  /\ cmd' = cmd /\ work' = work /\ calls'[s] = rest
         /\ at'[s] = IF rest = <<>> THEN None ELSE at[s]
         /\ outcome'[s] = IF rest = <<>> /\ DOMAIN work[s] = {} THEN "ok" ELSE "running"
  BY CallAt DEF Proceed, CommandsInv, ShellsOK

LEMMA FailShape ==
  ASSUME CommandsInv, NEW s \in Shell, Fail(s)
  PROVE  /\ cmd' = cmd /\ DOMAIN work'[s] = {} /\ at'[s] = None /\ outcome'[s] = "failed"
  BY DEF Fail, CommandsInv, ShellsOK

LEMMA TakeShape ==
  ASSUME CommandsInv, NEW s \in Shell, Take(s)
  PROVE  /\ at[s] = None /\ outcome[s] = "running" /\ cmd' = cmd /\ outcome' = outcome
         /\ UNCHANGED <<flagVars, mpvVars, loads, was>>
         /\ \E n \in DOMAIN work[s] :
              /\ n \in Name /\ n # None
              /\ at'[s] = n /\ calls'[s] = work[s][n]
              /\ work'[s] = [m \in DOMAIN work[s] \ {n} |-> work[s][m]]
  BY CommandsAssumption DEF Take, CommandsInv, ShellsOK, ShellOK

LEMMA IssueShape ==
  ASSUME CommandsInv, NEW s \in Shell, Issue(s)
  PROVE  /\ at'[s] = None /\ calls'[s] = <<>>
         /\ UNCHANGED <<flagVars, mpvVars, loads, session>>
         /\ cmd'[s] \in session /\ cmd'[s] \in Command /\ Valid(cmd'[s])
         /\ work'[s] = [n \in Chosen(cmd'[s]) |-> Script(cmd'[s], n)]
         /\ outcome'[s] = IF Chosen(cmd'[s]) = {} THEN "ok" ELSE "running"
  BY CommandsAssumption DEF Issue, CommandsInv, ShellsOK, ShellOK

LEMMA Turn1 ==
  ASSUME NEW a
  PROVE  Head(<<a>>) = a /\ Tail(<<a>>) = <<>> /\ <<a>> # <<>> /\ <<a>> \o <<>> = <<a>>
  OBVIOUS

LEMMA Turn2 ==
  ASSUME NEW a, NEW b
  PROVE  Head(<<a, b>>) = a /\ Tail(<<a, b>>) = <<b>> /\ <<a, b>> # <<>>
  OBVIOUS

LEMMA Turn3 ==
  ASSUME NEW a, NEW b, NEW c
  PROVE  Head(<<a, b, c>>) = a /\ Tail(<<a, b, c>>) = <<b, c>> /\ <<a, b, c>> # <<>>
  OBVIOUS

LEMMA Turn4 ==
  ASSUME NEW a, NEW b, NEW c, NEW d
  PROVE  Head(<<a, b, c, d>>) = a /\ Tail(<<a, b, c, d>>) = <<b, c, d>>
  OBVIOUS

LEMMA Joined == ASSUME NEW a, NEW b PROVE <<a>> \o <<b>> = <<a, b>>
  <1> DEFINE S == {a, b}
  <1>1. <<a>> \in Seq(S) /\ <<b>> \in Seq(S) /\ <<a, b>> \in Seq(S)
    OBVIOUS
  <1>2. Len(<<a>>) = 1 /\ Len(<<b>>) = 1 /\ Len(<<a, b>>) = 2
    OBVIOUS
  <1>3. <<a>> \o <<b>> \in Seq(S) /\ Len(<<a>> \o <<b>>) = 2
    BY <1>1, <1>2, ConcatProperties
  <1>4. (<<a>> \o <<b>>)[1] = a /\ (<<a>> \o <<b>>)[2] = b
    OBVIOUS
  <1>5. \A i \in 1 .. Len(<<a>> \o <<b>>) : (<<a>> \o <<b>>)[i] = <<a, b>>[i]
    BY <1>3, <1>4
  <1>6. QED
    BY <1>1, <1>2, <1>3, <1>5, SeqEqual

\* Where a plan for a channel stands when the daemon comes to its next call.
LEMMA ApplyingCall ==
  ASSUME NEW s, NEW n, NEW q, Applying(s, n, q)
  PROVE  LET a == Head(q)  c == cmd[s] IN
         /\ a \in {"add", "resolve", "set-channel", "restart", "stop", "quit", "start", "await"}
         /\ a = "add" =>
              /\ c.verb = "add" /\ Settled(n)
              /\ Tail(q) \in {<<"resolve", "set-channel">>, <<"resolve", "set-channel", "start">>}
         /\ a = "resolve" =>
              \/ /\ c.verb \in {"set-channel", "clear-channel"} /\ Settled(n)
                 /\ Tail(q) = <<"set-channel", "restart">>
              \/ /\ c.verb = "add" /\ n \in stopped /\ Settled(n)
                 /\ Tail(q) \in {<<"set-channel">>, <<"set-channel", "start">>}
         /\ a = "set-channel" =>
              \/ Settled(n) /\ Tail(q) = <<"restart">>
              \/ n \in stopped /\ Settled(n) /\ Tail(q) \in {<<>>, <<"start">>}
         /\ a = "restart" => Settled(n) /\ channel[n] = c.channel /\ Tail(q) = <<>>
         /\ a = "stop" => Settled(n) /\ channel[n] = c.channel /\ Tail(q) = <<"start">>
         /\ a = "quit" => n \notin launching /\ channel[n] = c.channel /\ Tail(q) = <<"start">>
         /\ a = "start" => /\ n \notin Busy /\ ~Playing(n) /\ channel[n] = c.channel
                           /\ Tail(q) = <<>>
         /\ a = "await" => ~Playing(n) /\ loads[s] = c.channel /\ Tail(q) = <<>>
  <1>1. CASE /\ cmd[s].verb \in {"set-channel", "clear-channel"} /\ Settled(n)
             /\ q \in {<<"resolve", "set-channel", "restart">>, <<"set-channel", "restart">>}
    <2>0. /\ Head(<<"resolve", "set-channel", "restart">>) = "resolve"
          /\ Tail(<<"resolve", "set-channel", "restart">>) = <<"set-channel", "restart">>
          /\ Head(<<"set-channel", "restart">>) = "set-channel"
          /\ Tail(<<"set-channel", "restart">>) = <<"restart">>
      BY Turn2, Turn3
    <2>1. \/ Head(q) = "resolve" /\ Tail(q) = <<"set-channel", "restart">>
          \/ Head(q) = "set-channel" /\ Tail(q) = <<"restart">>
      BY <1>1, <2>0
    <2>2. QED
      BY <1>1, <2>1
  <1>2. CASE /\ cmd[s].verb = "add" /\ Settled(n)
             /\ q \in {<<"add", "resolve", "set-channel">>,
                       <<"add", "resolve", "set-channel", "start">>}
    <2>0. /\ Head(<<"add", "resolve", "set-channel">>) = "add"
          /\ Tail(<<"add", "resolve", "set-channel">>) = <<"resolve", "set-channel">>
          /\ Head(<<"add", "resolve", "set-channel", "start">>) = "add"
          /\ Tail(<<"add", "resolve", "set-channel", "start">>) = <<"resolve", "set-channel", "start">>
      BY Turn3, Turn4
    <2>1. /\ Head(q) = "add"
          /\ Tail(q) \in {<<"resolve", "set-channel">>, <<"resolve", "set-channel", "start">>}
      BY <1>2, <2>0
    <2>2. QED
      BY <1>2, <2>1
  <1>3. CASE /\ cmd[s].verb = "add" /\ n \in stopped /\ Settled(n)
             /\ q \in {<<"resolve", "set-channel">>, <<"resolve", "set-channel", "start">>,
                       <<"set-channel">>, <<"set-channel", "start">>}
    <2>0. /\ Head(<<"resolve", "set-channel">>) = "resolve"
          /\ Tail(<<"resolve", "set-channel">>) = <<"set-channel">>
          /\ Head(<<"resolve", "set-channel", "start">>) = "resolve"
          /\ Tail(<<"resolve", "set-channel", "start">>) = <<"set-channel", "start">>
          /\ Head(<<"set-channel">>) = "set-channel" /\ Tail(<<"set-channel">>) = <<>>
          /\ Head(<<"set-channel", "start">>) = "set-channel"
          /\ Tail(<<"set-channel", "start">>) = <<"start">>
      BY Turn1, Turn2, Turn3
    <2>1. \/ Head(q) = "resolve" /\ Tail(q) \in {<<"set-channel">>, <<"set-channel", "start">>}
          \/ Head(q) = "set-channel" /\ Tail(q) \in {<<>>, <<"start">>}
      BY <1>3, <2>0
    <2>2. QED
      BY <1>3, <2>1
  <1>4. CASE q \in {<<"restart">>, <<"stop", "start">>} /\ Settled(n) /\ channel[n] = cmd[s].channel
    <2>0. /\ Head(<<"restart">>) = "restart" /\ Tail(<<"restart">>) = <<>>
          /\ Head(<<"stop", "start">>) = "stop" /\ Tail(<<"stop", "start">>) = <<"start">>
      BY Turn1, Turn2
    <2>1. \/ Head(q) = "restart" /\ Tail(q) = <<>>
          \/ Head(q) = "stop" /\ Tail(q) = <<"start">>
      BY <1>4, <2>0
    <2>2. QED
      BY <1>4, <2>1
  <1>5. CASE q = <<"quit", "start">> /\ n \notin launching /\ channel[n] = cmd[s].channel
    <2>1. Head(q) = "quit" /\ Tail(q) = <<"start">>
      BY <1>5, Turn1, Turn2, Turn3, Turn4
    <2>2. QED
      BY <1>5, <2>1
  <1>6. CASE q = <<"start">> /\ n \notin Busy /\ ~Playing(n) /\ channel[n] = cmd[s].channel
    <2>1. Head(q) = "start" /\ Tail(q) = <<>>
      BY <1>6, Turn1, Turn2, Turn3, Turn4
    <2>2. QED
      BY <1>6, <2>1
  <1>7. CASE q = <<"await">> /\ ~Playing(n) /\ loads[s] = cmd[s].channel
    <2>1. Head(q) = "await" /\ Tail(q) = <<>>
      BY <1>7, Turn1, Turn2, Turn3, Turn4
    <2>2. QED
      BY <1>7, <2>1
  <1>8. QED
    BY <1>1, <1>2, <1>3, <1>4, <1>5, <1>6, <1>7 DEF Applying

\* The command goes on with the calls left, or it was the last one.
LEMMA ApplyProceeds ==
  ASSUME CommandsInv, NEW s \in Shell, NEW n, n = at[s], n # None, cmd[s].on = {n},
         DOMAIN work[s] = {}, NEW rest, Proceed(s, rest),
         IF rest = <<>> THEN n \in online' => plays'[n] = cmd[s].channel
                        ELSE Applying(s, n, rest)'
  PROVE  ApplyOK(s)'
  BY ProceedShape DEF ApplyOK

LEMMA ApplyServed ==
  ASSUME CommandsInv, NEW s \in Shell, ApplyOK(s), Served(s)
  PROVE  ApplyOK(s)'
  <1> PICK n, c, q, a : n = at[s] /\ c = cmd[s] /\ q = calls[s] /\ a = Head(q)
    OBVIOUS
  <1>0. /\ n # None /\ n \in Name /\ q # <<>> /\ outcome[s] = "running"
        /\ DaemonOK /\ ShellsOK
    BY ServedFrame DEF CommandsInv
  <1>1. c.on = {n} /\ DOMAIN work[s] = {} /\ Applying(s, n, q)
    BY <1>0 DEF ApplyOK
  <1>2. ASSUME Fail(s) PROVE ApplyOK(s)'
    BY <1>2, FailShape DEF ApplyOK
  <1>3. ASSUME NEW rest, Proceed(s, rest),
               IF rest = <<>> THEN n \in online' => plays'[n] = c.channel
                              ELSE Applying(s, n, rest)'
        PROVE  ApplyOK(s)'
    BY <1>0, <1>1, <1>3, ApplyProceeds
  <1>4. CASE Start(s)
    <2>1. a = "start" /\ n \notin Busy
      BY <1>0, <1>1, <1>4, ApplyingCall DEF Start, Call
    <2>2. ~Playing(n) /\ channel[n] = c.channel /\ Tail(q) = <<>>
      BY <1>1, <2>1, ApplyingCall
    <2>3. /\ calls' = [calls EXCEPT ![s] = <<"await">> \o Tail(@)]
          /\ loads' = [loads EXCEPT ![s] = channel[n]]
          /\ UNCHANGED <<cmd, work, at, outcome, plays>>
      BY <1>4, <2>1 DEF Start, External, mpvVars
    <2>4. calls'[s] = <<"await">> /\ loads'[s] = c.channel
      BY <1>0, <2>2, <2>3, Turn1 DEF ShellsOK
    <2>5. Applying(s, n, calls[s])'
      BY <2>2, <2>3, <2>4 DEF Applying, Playing
    <2>6. QED
      BY <1>0, <1>1, <2>3, <2>5 DEF ApplyOK
  <1>5. CASE Launches(s)
    <2>1. a = "await" /\ Launched(n, loads[s])
      BY <1>5 DEF Launches, Call
    <2>2. ~Playing(n) /\ loads[s] = c.channel /\ Tail(q) = <<>>
      BY <1>1, <2>1, ApplyingCall
    <2>3. plays'[n] = c.channel
      BY <1>0, <2>1, <2>2 DEF Launched, DaemonOK
    <2>4. QED
      BY <1>2, <1>3, <1>5, <2>2, <2>3 DEF Launches, Done
  <1>6. CASE Stop(s)
    <2>1. a = "stop" /\ UNCHANGED <<online, launching, channel, plays, cmd>>
      BY <1>6, ProceedShape, <1>0 DEF Stop, Call, External, mpvVars, Done, Instead
    <2>2. Settled(n) /\ channel[n] = c.channel /\ Tail(q) = <<"start">>
      BY <1>1, <2>1, ApplyingCall
    <2>3. CASE n \in online
      <3>1. Proceed(s, <<"quit", "start">>)
        BY <1>6, <2>2, <2>3, Joined DEF Stop, Instead
      <3>2. Applying(s, n, <<"quit", "start">>)'
        BY <2>1, <2>2 DEF Applying, Settled
      <3>3. QED
        BY <1>3, <3>1, <3>2
    <2>4. CASE n \notin online
      <3>1. Proceed(s, <<"start">>)
        BY <1>6, <2>2, <2>4 DEF Stop, Done
      <3>2. Applying(s, n, <<"start">>)'
        BY <2>1, <2>2, <2>4 DEF Applying, Settled, Busy, Playing
      <3>3. QED
        BY <1>3, <3>1, <3>2
    <2>5. QED
      BY <2>3, <2>4
  <1>7. CASE Quits(s)
    <2>1. a = "quit" /\ Gone(n) /\ (Done(s) \/ Fail(s)) /\ channel' = channel
      BY <1>7 DEF Quits, Call
    <2>2. n \notin launching /\ channel[n] = c.channel /\ Tail(q) = <<"start">>
      BY <1>1, <2>1, ApplyingCall
    <2>3. n \notin online' /\ n \notin launching' /\ plays'[n] = None
      BY <1>0, <2>1, <2>2 DEF Gone, DaemonOK
    <2>4. CASE Done(s)
      <3>1. Proceed(s, <<"start">>) /\ cmd' = cmd
        BY <1>0, <2>2, <2>4, ProceedShape DEF Done
      <3>2. Applying(s, n, <<"start">>)'
        BY <2>1, <2>2, <2>3, <3>1 DEF Applying, Busy, Playing
      <3>3. QED
        BY <1>3, <3>1, <3>2
    <2>5. QED
      BY <1>2, <2>1, <2>4
  <1>8. CASE Restart(s)
    <2>1. a = "restart" /\ n \notin disabled /\ n \in known
      BY <1>0, <1>8 DEF Restart, Call, Rejected
    <2>2. Settled(n) /\ channel[n] = c.channel /\ Tail(q) = <<>>
      BY <1>1, <2>1, ApplyingCall
    <2>3. /\ Proceed(s, RestartCalls(n) \o <<>>)
          /\ UNCHANGED <<flagVars, plays, cmd>>
      BY <1>0, <1>8, <2>2, ProceedShape DEF Restart, Instead, External, mpvVars
    <2>4. RestartCalls(n) \o <<>> = RestartCalls(n)
      BY DEF RestartCalls
    <2>5. CASE n \notin stopped
      <3>1. RestartCalls(n) = <<"stop", "start">>
        BY <2>5 DEF RestartCalls
      <3>2. Applying(s, n, <<"stop", "start">>)'
        BY <2>2, <2>3 DEF Applying, Settled, Playing, Expected, flagVars
      <3>3. QED
        BY <1>3, <2>3, <2>4, <3>1, <3>2
    <2>6. CASE n \in stopped
      <3>1. RestartCalls(n) = <<"start">> /\ n \notin Busy /\ ~Playing(n)
        BY <2>2, <2>6 DEF RestartCalls, Settled, Expected, Busy
      <3>2. Applying(s, n, <<"start">>)'
        BY <2>2, <2>3, <3>1 DEF Applying, Playing, Busy, flagVars
      <3>3. QED
        BY <1>3, <2>3, <2>4, <3>1, <3>2
    <2>7. QED
      BY <2>5, <2>6
  <1>9. CASE RestartDisabled(s)
    <2>1. a = "restart" /\ n \notin online' /\ Done(s)
      BY <1>9 DEF RestartDisabled, Call
    <2>2. Tail(q) = <<>>
      BY <1>1, <2>1, ApplyingCall
    <2>3. QED
      BY <1>3, <2>1, <2>2 DEF Done
  <1>10. CASE Resolve(s)
    <2>1. a = "resolve" /\ Done(s) /\ UNCHANGED <<flagVars, plays>>
      BY <1>10 DEF Resolve, Call, External, mpvVars
    <2>2. cmd' = cmd /\ Proceed(s, Tail(q)) /\ Tail(q) # <<>>
      BY <1>0, <1>1, <2>1, ProceedShape, ApplyingCall DEF Done
    <2>3. Applying(s, n, Tail(q))'
      <3>1. \/ /\ c.verb \in {"set-channel", "clear-channel"} /\ Settled(n)
               /\ Tail(q) = <<"set-channel", "restart">>
            \/ /\ c.verb = "add" /\ n \in stopped /\ Settled(n)
               /\ Tail(q) \in {<<"set-channel">>, <<"set-channel", "start">>}
        BY <1>1, <2>1, ApplyingCall
      <3>2. Settled(n)' /\ (n \in stopped => n \in stopped')
        BY <2>1, <3>1 DEF Settled, Expected, Playing, flagVars
      <3>3. QED
        BY <2>2, <3>1, <3>2 DEF Applying
    <2>4. QED
      BY <1>3, <2>2, <2>3
  <1>11. CASE SetChannel(s)
    <2>1. /\ a = "set-channel" /\ Done(s) /\ channel'[n] = c.channel
          /\ UNCHANGED <<known, disabled, stopped, online, launching, plays>>
      BY <1>0, <1>11 DEF SetChannel, Call, External, mpvVars, DaemonOK
    <2>2. cmd' = cmd /\ Proceed(s, Tail(q))
      BY <1>0, <2>1, ProceedShape DEF Done
    <2>3. \/ Settled(n) /\ Tail(q) = <<"restart">>
          \/ n \in stopped /\ Settled(n) /\ Tail(q) \in {<<>>, <<"start">>}
      BY <1>1, <2>1, ApplyingCall
    <2>4. Settled(n)' /\ (n \in stopped => n \notin Busy' /\ ~Playing(n)')
      BY <2>1, <2>3 DEF Settled, Expected, Playing, Busy
    <2>5. CASE Tail(q) = <<"restart">>
      <3>1. Applying(s, n, <<"restart">>)'
        BY <2>1, <2>2, <2>4 DEF Applying
      <3>2. QED
        BY <1>3, <2>2, <2>5, <3>1
    <2>6. CASE n \in stopped /\ Tail(q) = <<>>
      BY <1>3, <2>2, <2>4, <2>6 DEF Busy
    <2>7. CASE n \in stopped /\ Tail(q) = <<"start">>
      <3>1. Applying(s, n, <<"start">>)'
        BY <2>1, <2>2, <2>4, <2>7 DEF Applying
      <3>2. QED
        BY <1>3, <2>2, <2>7, <3>1
    <2>8. QED
      BY <2>3, <2>5, <2>6, <2>7
  <1>12. CASE Add(s)
    <2>1. /\ a = "add" /\ Done(s) /\ n \notin known /\ n \in stopped'
          /\ UNCHANGED <<online, launching, plays>>
      BY <1>0, <1>12 DEF Add, Call, Rejected, External, mpvVars
    <2>2. cmd' = cmd /\ Proceed(s, Tail(q))
      BY <1>0, <2>1, ProceedShape DEF Done
    <2>3. /\ c.verb = "add" /\ Settled(n)
          /\ Tail(q) \in {<<"resolve", "set-channel">>, <<"resolve", "set-channel", "start">>}
      BY <1>1, <2>1, ApplyingCall
    <2>4. Settled(n)'
      BY <1>0, <2>1, <2>3 DEF Settled, Expected, Playing, DaemonOK
    <2>5. Applying(s, n, Tail(q))' /\ Tail(q) # <<>>
      <3>1. Tail(q) # <<>>
        BY <2>3, Turn2, Turn3
      <3>2. QED
        BY <2>1, <2>2, <2>3, <2>4, <3>1 DEF Applying
    <2>6. QED
      BY <1>3, <2>2, <2>5
  <1>13. CASE \/ EnableTarget(s) \/ StopFirst(s) \/ DisableTarget(s) \/ Forget(s) \/ Rename(s)
              \/ MpvCommand(s)
    <2>1. a \in {"enable", "disable", "remove", "disable now", "forget", "rename"} \cup MpvCall
      BY <1>13 DEF EnableTarget, StopFirst, DisableTarget, Forget, Rename, MpvCommand, Call
    <2>2. QED
      BY <1>1, <2>1, ApplyingCall DEF MpvCall
  <1>14. QED
    BY <1>2, <1>4, <1>5, <1>6, <1>7, <1>8, <1>9, <1>10, <1>11, <1>12, <1>13 DEF Served, Refused

LEMMA Joined2 == ASSUME NEW a, NEW b, NEW c PROVE <<a, b>> \o <<c>> = <<a, b, c>>
  <1> DEFINE S == {a, b, c}
             x == <<a, b>> \o <<c>>
  <1>1. <<a, b>> \in Seq(S) /\ <<c>> \in Seq(S) /\ <<a, b, c>> \in Seq(S)
    OBVIOUS
  <1>2. x \in Seq(S) /\ Len(x) = 3 /\ Len(<<a, b, c>>) = 3
    BY <1>1, ConcatProperties
  <1>3. x[1] = a /\ x[2] = b /\ x[3] = c
    OBVIOUS
  <1>4. \A i \in 1 .. Len(x) : x[i] = <<a, b, c>>[i]
    BY <1>2, <1>3
  <1>5. QED
    BY <1>1, <1>2, <1>4, SeqEqual

LEMMA Joined12 == ASSUME NEW a, NEW b, NEW c PROVE <<a>> \o <<b, c>> = <<a, b, c>>
  <1> DEFINE S == {a, b, c}
             x == <<a>> \o <<b, c>>
  <1>1. <<a>> \in Seq(S) /\ <<b, c>> \in Seq(S) /\ <<a, b, c>> \in Seq(S)
    OBVIOUS
  <1>2. x \in Seq(S) /\ Len(x) = 3 /\ Len(<<a, b, c>>) = 3
    BY <1>1, ConcatProperties
  <1>3. x[1] = a /\ x[2] = b /\ x[3] = c
    OBVIOUS
  <1>4. \A i \in 1 .. Len(x) : x[i] = <<a, b, c>>[i]
    BY <1>2, <1>3
  <1>5. QED
    BY <1>1, <1>2, <1>4, SeqEqual

LEMMA Joined3 ==
  ASSUME NEW a, NEW b, NEW c, NEW d
  PROVE  <<a, b, c>> \o <<d>> = <<a, b, c, d>> /\ <<a, b, c>> \o <<>> = <<a, b, c>>
  <1> DEFINE S == {a, b, c, d}
             x == <<a, b, c>> \o <<d>>
  <1>1. <<a, b, c>> \in Seq(S) /\ <<d>> \in Seq(S) /\ <<a, b, c, d>> \in Seq(S)
    OBVIOUS
  <1>2. x \in Seq(S) /\ Len(x) = 4 /\ Len(<<a, b, c, d>>) = 4
    BY <1>1, ConcatProperties
  <1>3. x[1] = a /\ x[2] = b /\ x[3] = c /\ x[4] = d
    OBVIOUS
  <1>4. \A i \in 1 .. Len(x) : x[i] = <<a, b, c, d>>[i]
    BY <1>2, <1>3
  <1>5. QED
    BY <1>1, <1>2, <1>4, SeqEqual, ConcatEmptySeq

LEMMA ServedCmd == ASSUME CommandsInv, NEW s \in Shell, Served(s) PROVE cmd' = cmd
  <1>1. Fail(s) \/ Done(s) \/ cmd' = cmd \/ \E first : Instead(s, first)
    BY DEF Served, Refused, Start, Launches, Stop, Quits, Restart, RestartDisabled, EnableTarget,
           StopFirst, DisableTarget, Resolve, SetChannel, Add, Forget, Rename, MpvCommand
  <1>2. QED
    BY <1>1 DEF Fail, Done, Instead, Proceed

LEMMA ApplyTake ==
  ASSUME CommandsInv, NEW s \in Shell, ApplyOK(s), Take(s)
  PROVE  ApplyOK(s)'
  <1>1. /\ at[s] = None /\ outcome[s] = "running" /\ cmd' = cmd /\ outcome' = outcome
        /\ UNCHANGED <<flagVars, mpvVars, loads>>
    BY TakeShape
  <1>2. PICK n \in Name : /\ cmd[s].on = {n} /\ DOMAIN work[s] = {n}
                          /\ Applying(s, n, work[s][n])
    BY <1>1 DEF ApplyOK
  <1>3. /\ n # None /\ at'[s] = n /\ calls'[s] = work[s][n]
        /\ DOMAIN work'[s] = {}
    BY <1>2, TakeShape
  <1>4. PICK q : q = work[s][n]
    OBVIOUS
  <1>5. Applying(s, n, q)'
    BY <1>1, <1>2, <1>4
       DEF Applying, Settled, Expected, Busy, Playing, flagVars, mpvVars
  <1>6. QED
    BY <1>1, <1>2, <1>3, <1>4, <1>5 DEF ApplyOK

\* At rest every target is settled.
LEMMA RestSettles ==
  ASSUME CommandsInv, AtRest, NEW n \in Name
  PROVE  Settled(n)
  BY DEF AtRest, Settled

LEMMA ApplyIssue ==
  ASSUME CommandsInv, NEW s \in Shell, Issue(s), AtRest, Applies(cmd'[s])
  PROVE  ApplyOK(s)'
  <1> PICK c : c = cmd'[s]
    OBVIOUS
  <1>1. /\ at'[s] = None /\ UNCHANGED <<flagVars, mpvVars, loads>>
        /\ c \in Command /\ Valid(c)
        /\ work'[s] = [n \in Chosen(c) |-> Script(c, n)]
        /\ outcome'[s] = IF Chosen(c) = {} THEN "ok" ELSE "running"
    BY IssueShape
  <1>2. /\ c.verb \in {"add", "set-channel", "clear-channel"} /\ ~c.all
        /\ c.verb = "add" => c.channel # NoChannel
        /\ c.verb # "add" => "--restart" \in c.flags
    BY <1>1 DEF Applies, Valid, Command, Lifecycle, MpvVerb
  <1>3. PICK n \in Name : c.on = {n}
    BY <1>1, <1>2 DEF Valid, Admin
  <1>4. Chosen(c) = {n} /\ DOMAIN work'[s] = {n} /\ work'[s][n] = Script(c, n)
        /\ outcome'[s] = "running"
    BY <1>1, <1>2, <1>3 DEF Chosen
  <1>5. Settled(n)'
    BY <1>1, RestSettles DEF Settled, Expected, Playing, flagVars, mpvVars
  <1>6. PICK q : q = Script(c, n)
    OBVIOUS
  <1>7. CASE c.verb = "set-channel"
    <2>1. c.channel # NoChannel
      BY <1>1, <1>7 DEF Valid
    <2>2. q = <<"resolve", "set-channel">> \o <<"restart">>
      BY <1>2, <1>6, <1>7, <2>1 DEF Script, SetCalls
    <2>3. q = <<"resolve", "set-channel", "restart">>
      BY <2>2, Joined2
    <2>4. Applying(s, n, q)'
      BY <1>5, <1>7, <2>3 DEF Applying
    <2>5. QED
      BY <1>1, <1>3, <1>4, <1>6, <2>4 DEF ApplyOK
  <1>8. CASE c.verb = "clear-channel"
    <2>1. q = <<"set-channel">> \o <<"restart">>
      BY <1>2, <1>6, <1>8 DEF Script
    <2>2. q = <<"set-channel", "restart">>
      BY <2>1, Joined
    <2>3. Applying(s, n, q)'
      BY <1>5, <1>8, <2>2 DEF Applying
    <2>4. QED
      BY <1>1, <1>3, <1>4, <1>6, <2>3 DEF ApplyOK
  <1>9. CASE c.verb = "add"
    <2>1. q = (<<"add">> \o <<"resolve", "set-channel">>) \o StartCalls(c)
      BY <1>2, <1>6, <1>9 DEF Script, AddCalls, SetCalls
    <2>2. <<"add">> \o <<"resolve", "set-channel">> = <<"add", "resolve", "set-channel">>
      BY Joined12
    <2>3. q \in {<<"add", "resolve", "set-channel">>, <<"add", "resolve", "set-channel", "start">>}
      BY <2>1, <2>2, Joined3 DEF StartCalls
    <2>4. Applying(s, n, q)'
      BY <1>5, <1>9, <2>3 DEF Applying
    <2>5. QED
      BY <1>1, <1>3, <1>4, <1>6, <2>4 DEF ApplyOK
  <1>10. QED
    BY <1>2, <1>7, <1>8, <1>9

LEMMA ApplyStep ==
  ASSUME CommandsInv, Alone, ApplyInv, [CommandsNext]_commandsVars
  PROVE  ApplyInv'
  <1> SUFFICES ASSUME NEW s \in Shell, calm' = s, Applies(cmd'[s]) PROVE ApplyOK(s)'
    BY DEF ApplyInv
  <1>1. CASE Issue(s) /\ AtRest
    BY <1>1, ApplyIssue
  <1>2. ASSUME calm = s, cmd' = cmd PROVE ApplyOK(s)
    BY <1>2 DEF ApplyInv
  <1>3. CASE calm = s /\ Take(s)
    BY <1>2, <1>3, ApplyTake, TakeShape
  <1>4. CASE calm = s /\ Served(s)
    <2>1. cmd' = cmd
      BY <1>4, ServedCmd
    <2>2. QED
      BY <1>2, <1>4, <2>1, ApplyServed
  <1>5. CASE calm = s /\ Unmoved
    BY <1>2, <1>5 DEF Unmoved, flagVars, mpvVars, shellVars, ApplyOK, Applying, Settled, Expected,
                      Busy, Playing
  <1>6. QED
    BY <1>1, <1>3, <1>4, <1>5, CalmStep

LEMMA CalmBegins == CommandsInit => Alone /\ ApplyInv /\ ToggleInv /\ BulkInv
  BY CommandsAssumption DEF CommandsInit, Alone, ApplyInv, ToggleInv, BulkInv

\* For every set of names, shells and commands and whatever may go wrong: a
\* `set-channel --restart`, a `clear-channel --restart` or an `add --channel` that
\* nothing disturbs and that reports success leaves the target online only with
\* the channel it names.
THEOREM ChannelTakesEffect == CommandsSpec => []ChannelApplied
  <1>1. CommandsInv /\ ApplyInv => ChannelApplied
    BY DEF CommandsInv, ShellsOK, ShellOK, ApplyInv, ApplyOK, Applies, ChannelApplied
  <1>2. CommandsInit => Alone /\ ApplyInv
    BY CalmBegins
  <1>3. CommandsInv /\ Alone /\ ApplyInv /\ [CommandsNext]_commandsVars => Alone' /\ ApplyInv'
    BY AloneStep, ApplyStep
  <1>4. QED
    BY <1>1, <1>2, <1>3, CommandsHold, PTL DEF CommandsSpec

LEMMA ToggleServed ==
  ASSUME CommandsInv, NEW s \in Shell, Toggles(cmd[s]), ToggleOK(s), Served(s)
  PROVE  ToggleOK(s)'
  <1> PICK n, c, q, a : n = at[s] /\ c = cmd[s] /\ q = calls[s] /\ a = Head(q)
    OBVIOUS
  <1>0. /\ n # None /\ n \in Name /\ c \in Command /\ cmd' = cmd /\ was' = was
        /\ DaemonOK /\ ShellsOK /\ RightCall(s, n, q)
    BY ServedFrame, ServedCmd, CallAt DEF CommandsInv, ToggleOK
  <1>1. q = <<a>> /\ a \in MpvCall /\ Tail(q) = <<>> /\ (n \in online => a = Right(c, n))
    <2>1. PICK b \in MpvCall : q = <<b>>
      BY <1>0 DEF RightCall
    <2>2. b = a /\ Tail(q) = <<>>
      BY <2>1, Turn1
    <2>3. ASSUME n \in online PROVE a = Right(c, n)
      <3>1. q = <<Right(c, n)>>
        BY <1>0, <2>3 DEF RightCall
      <3>2. QED
        BY <3>1, Turn1
    <2>4. QED
      BY <2>1, <2>2, <2>3
  <1>2. CASE Refused(s)
    BY <1>0, <1>2, FailShape DEF Refused, ToggleOK
  <1>3. CASE MpvCommand(s)
    <2>1. /\ Done(s) /\ n \in online /\ set' = [set EXCEPT ![n] = Effect(a, @)] /\ online' = online
      BY <1>0, <1>1, <1>3 DEF MpvCommand, Rejected, flagVars
    <2>2. work' = work /\ at'[s] = None
      BY <1>0, <1>1, <2>1, ProceedShape DEF Done
    <2>3. WasPaused' = WasPaused
      BY <1>0, <2>1 DEF WasPaused
    <2>4. \A m \in DOMAIN work[s] : RightCall(s, m, work[s][m])'
      BY <1>0, <2>1, <2>2, <2>3 DEF ToggleOK, RightCall, Right
    <2>5. Toggled(c, n)'
      <3>1. set[n] \in [Property -> {"on", "off"}] /\ set'[n] = Effect(a, set[n])
        BY <1>0, <2>1 DEF DaemonOK
      <3>2. was[n]["loop"] \in {"on", "off"} /\ "loop" \in Property /\ "pause" \in Property
        BY <1>0 DEF ToggleOK, Property
      <3>3. CASE c.verb = "loop"
        <4>1. a = IF was[n]["loop"] = "on" THEN "loop off" ELSE "loop on"
          BY <1>1, <2>1, <3>3 DEF Right
        <4>2. set'[n]["loop"] = IF was[n]["loop"] = "on" THEN "off" ELSE "on"
          BY <3>1, <3>2, <4>1 DEF Effect
        <4>3. QED
          BY <1>0, <3>2, <3>3, <4>2 DEF Toggled, Opposite
      <3>4. CASE c.verb # "loop"
        <4>1. a = IF WasPaused THEN "play" ELSE "pause"
          BY <1>1, <2>1, <3>4 DEF Right
        <4>2. set'[n]["pause"] = IF WasPaused THEN "off" ELSE "on"
          BY <3>1, <3>2, <4>1 DEF Effect
        <4>3. QED
          BY <2>3, <3>4, <4>2 DEF Toggled
      <3>5. QED
        BY <3>3, <3>4
    <2>6. ASSUME NEW m, m # n, Toggled(c, m) PROVE Toggled(c, m)'
      <3>1. set'[m] = set[m]
        BY <1>0, <2>1, <2>6 DEF DaemonOK
      <3>2. QED
        BY <1>0, <2>3, <2>6, <3>1 DEF Toggled
    <2>7. /\ ToggleTargets(cmd[s])' = ToggleTargets(cmd[s])
          /\ outcome[s] # "failed"
      BY <1>0, <2>1, ServedFrame DEF ToggleTargets
    <2>8. ASSUME NEW m \in ToggleTargets(cmd[s])
          PROVE  m \in DOMAIN work[s] \/ Toggled(c, m)'
      BY <1>0, <2>5, <2>6, <2>7 DEF ToggleOK
    <2>9. QED
      BY <1>0, <2>2, <2>4, <2>7, <2>8 DEF ToggleOK
  <1>4. CASE ~Refused(s) /\ ~MpvCommand(s)
    <2>1. a \in {"start", "await", "stop", "quit", "restart", "enable", "disable", "remove",
                 "disable now", "forget", "rename", "resolve", "set-channel", "add"}
      BY <1>0, <1>4
         DEF Served, Start, Launches, Stop, Quits, Restart, RestartDisabled, EnableTarget,
             StopFirst, DisableTarget, Resolve, SetChannel, Add, Forget, Rename, Call
    <2>2. QED
      BY <1>1, <2>1 DEF MpvCall
  <1>5. QED
    BY <1>2, <1>3, <1>4

LEMMA ToggleTake ==
  ASSUME CommandsInv, NEW s \in Shell, Toggles(cmd[s]), ToggleOK(s), Take(s)
  PROVE  ToggleOK(s)'
  <1>1. PICK n \in DOMAIN work[s] :
          /\ at'[s] = n /\ calls'[s] = work[s][n]
          /\ work'[s] = [m \in DOMAIN work[s] \ {n} |-> work[s][m]]
    BY TakeShape
  <1>2. /\ cmd' = cmd /\ outcome' = outcome /\ UNCHANGED <<online, set, was>>
    BY TakeShape DEF flagVars, mpvVars
  <1>3. at[s] = None /\ \A m \in ToggleTargets(cmd[s]) : m # None
    <2>1. cmd[s] \in Command
      BY DEF Take, CommandsInv, ShellsOK, ShellOK
    <2>2. ToggleTargets(cmd[s]) \subseteq Name
      BY <2>1 DEF ToggleTargets, CommandsInv, DaemonOK, Command
    <2>3. QED
      BY <2>2, CommandsAssumption DEF Take
  <1>4. \A m, q : RightCall(s, m, q)' <=> RightCall(s, m, q)
    BY <1>2 DEF RightCall, Right, WasPaused
  <1>5. \A m : Toggled(cmd[s], m)' <=> Toggled(cmd[s], m)
    BY <1>2 DEF Toggled, WasPaused
  <1>6. ToggleTargets(cmd[s])' = ToggleTargets(cmd[s])
    BY <1>2 DEF ToggleTargets
  <1>7. /\ \A m \in DOMAIN work'[s] : \A q : q = work'[s][m] => RightCall(s, m, q)'
        /\ \A m, q : m = at'[s] /\ q = calls'[s] => RightCall(s, m, q)'
    BY <1>1, <1>4 DEF ToggleOK
  <1>8. \A m \in ToggleTargets(cmd[s]) :
          \/ outcome'[s] = "failed" \/ m \in DOMAIN work'[s] \/ m = at'[s]
          \/ Toggled(cmd[s], m)'
    BY <1>1, <1>2, <1>3, <1>5 DEF ToggleOK
  <1>9. QED
    BY <1>2, <1>6, <1>7, <1>8 DEF ToggleOK

LEMMA ToggleIssue ==
  ASSUME CommandsInv, NEW s \in Shell, Issue(s), AtRest, was' = set, Toggles(cmd'[s])
  PROVE  ToggleOK(s)'
  <1> PICK c : c = cmd'[s]
    OBVIOUS
  <1>1. /\ at'[s] = None /\ UNCHANGED <<flagVars, mpvVars, session>>
        /\ c \in session /\ c \in Command /\ Valid(c)
        /\ work'[s] = [n \in Chosen(c) |-> Script(c, n)]
    BY IssueShape
  <1>2. \A n \in online : seen[n] = set[n]
    BY <1>1 DEF AtRest, SeenIsRead, Toggles
  <1>3. Chosen(c) = ToggleTargets(c) /\ online \cap disabled = {}
    BY <1>1 DEF Chosen, ToggleTargets, Toggles, Valid, Lifecycle, MpvVerb, AtRest, Expected
  <1>4. AllPaused <=> WasPaused'
    BY <1>1, <1>2, <1>3 DEF AllPaused, WasPaused, flagVars
  <1>5. ASSUME NEW n \in Chosen(c), NEW q, q = Script(c, n) PROVE RightCall(s, n, q)'
    <2>1. CASE c.verb = "loop"
      <3>1. Script(c, n) = <<IF seen[n]["loop"] = "on" THEN "loop off" ELSE "loop on">>
        BY <2>1 DEF Script
      <3>2. q \in {<<a>> : a \in MpvCall}
        BY <1>5, <3>1 DEF MpvCall
      <3>3. n \in online' => was'[n]["loop"] = seen[n]["loop"]
        BY <1>1, <1>2 DEF flagVars
      <3>4. QED
        BY <1>5, <2>1, <3>1, <3>2, <3>3 DEF RightCall, Right
    <2>2. CASE c.verb = "toggle-play" /\ c.all
      <3>1. Script(c, n) = <<IF AllPaused THEN "play" ELSE "pause">>
        BY <2>2 DEF Script, Together
      <3>2. QED
        BY <1>4, <1>5, <2>2, <3>1 DEF RightCall, Right, MpvCall
    <2>3. QED
      BY <2>1, <2>2 DEF Toggles
  <1>6. was' \in [Name -> [Property -> {"on", "off"}]]
    BY DEF CommandsInv, DaemonOK
  <1>7. ToggleTargets(c)' = ToggleTargets(c)
    BY <1>1 DEF ToggleTargets, flagVars
  <1>8. QED
    BY <1>1, <1>3, <1>5, <1>6, <1>7 DEF ToggleOK

LEMMA ToggleStep ==
  ASSUME CommandsInv, Alone, ToggleInv, [CommandsNext]_commandsVars
  PROVE  ToggleInv'
  <1> SUFFICES ASSUME NEW s \in Shell, calm' = s, Toggles(cmd'[s]) PROVE ToggleOK(s)'
    BY DEF ToggleInv
  <1>1. CASE Issue(s) /\ AtRest /\ was' = set
    BY <1>1, ToggleIssue
  <1>2. ASSUME calm = s, cmd' = cmd PROVE Toggles(cmd[s]) /\ ToggleOK(s)
    BY <1>2 DEF ToggleInv
  <1>3. CASE calm = s /\ Take(s)
    BY <1>2, <1>3, ToggleTake, TakeShape
  <1>4. CASE calm = s /\ Served(s)
    BY <1>2, <1>4, ServedCmd, ToggleServed
  <1>5. CASE calm = s /\ was' = was /\ Unmoved
    BY <1>2, <1>5 DEF Unmoved, flagVars, mpvVars, shellVars, ToggleOK, RightCall, Right, Toggled,
                      WasPaused, ToggleTargets
  <1>6. QED
    BY <1>1, <1>3, <1>4, <1>5, CalmStep

\* For every set of names, shells and commands and whatever may go wrong: a
\* `toggle-play all` that nothing disturbs and that succeeds takes every target
\* to the one state that what was shown calls for, and `loop` turns each of its
\* targets.
THEOREM TogglesFollowDisplay == CommandsSpec => []TogglesAsShown
  <1>1. ASSUME CommandsInv, ToggleInv PROVE TogglesAsShown
    <2> SUFFICES ASSUME NEW s \in Shell, calm = s, outcome[s] = "ok", Toggles(cmd[s])
                 PROVE  \A n \in ToggleTargets(cmd[s]) : Toggled(cmd[s], n)
      BY DEF TogglesAsShown, Toggles, ToggleTargets, Toggled, WasPaused
    <2>1. ToggleOK(s)
      BY <1>1 DEF ToggleInv
    <2>2. DOMAIN work[s] = {} /\ at[s] = None /\ cmd[s] \in Command
      BY <1>1 DEF CommandsInv, ShellsOK, ShellOK
    <2>3. ToggleTargets(cmd[s]) \subseteq Name
      BY <1>1, <2>2 DEF ToggleTargets, CommandsInv, DaemonOK, Command
    <2>4. QED
      BY <2>1, <2>2, <2>3, CommandsAssumption DEF ToggleOK
  <1>2. CommandsInit => Alone /\ ToggleInv
    BY CalmBegins
  <1>3. CommandsInv /\ Alone /\ ToggleInv /\ [CommandsNext]_commandsVars => Alone' /\ ToggleInv'
    BY AloneStep, ToggleStep
  <1>4. QED
    BY <1>1, <1>2, <1>3, CommandsHold, PTL DEF CommandsSpec

After(v) == IF v = "stop" THEN <<>> ELSE <<"start">>

LEMMA OneIsNotTwo ==
  /\ \A x, y, z : <<x>> # <<y, z>>
  /\ \A x, y : <<x>> = <<y>> => x = y
  /\ <<"stop", "start">> # <<"quit", "start">>
  OBVIOUS

\* Where a command on all targets stands when the daemon comes to its next call.
LEMMA BulkingCall ==
  ASSUME NEW n, NEW v, NEW q \in BulkPlans(v), Bulking(n, q)
  PROVE  LET a == Head(q) IN
         \/ /\ a = "start" /\ Tail(q) = <<>> /\ v \in {"start", "restart"}
            /\ Settled(n) /\ n \in stopped \ disabled
         \/ /\ a = "await" /\ Tail(q) = <<>> /\ v \in {"start", "restart"}
            /\ n \in Expected \ online /\ n \in launching
         \/ a = "restart" /\ Tail(q) = <<>> /\ v = "restart" /\ Settled(n) /\ n \in online
         \/ /\ a = "stop" /\ Tail(q) = After(v) /\ v \in {"stop", "restart"}
            /\ Settled(n) /\ n \in online
         \/ /\ a = "quit" /\ Tail(q) = After(v) /\ v \in {"stop", "restart"}
            /\ n \in (online \cap stopped) \ (launching \cup disabled)
         \/ a \in MpvCall /\ Tail(q) = <<>> /\ v \notin Lifecycle /\ Settled(n) /\ n \in online
  <1>1. \A x : Head(<<x>>) = x /\ Tail(<<x>>) = <<>>
    BY Turn1
  <1>2. /\ Head(<<"stop", "start">>) = "stop" /\ Tail(<<"stop", "start">>) = <<"start">>
        /\ Head(<<"quit", "start">>) = "quit" /\ Tail(<<"quit", "start">>) = <<"start">>
    BY Turn2
  <1>3. \/ q = <<Head(q)>> /\ Tail(q) = <<>>
        \/ q \in {<<"stop", "start">>, <<"quit", "start">>}
    <2>1. q \in {<<"stop", "start">>, <<"quit", "start">>} \/ \E x : q = <<x>>
      BY DEF BulkPlans
    <2>2. QED
      BY <1>1, <2>1
  <1>4. CASE q = <<"stop", "start">>
    <2>1. Head(q) = "stop" /\ Tail(q) = <<"start">>
      BY <1>2, <1>4
    <2>2. q # <<"quit", "start">> /\ \A x : q # <<x>>
      BY <1>4, OneIsNotTwo
    <2>3. v = "restart"
      BY <2>2 DEF BulkPlans
    <2>4. QED
      BY <2>1, <2>2, <2>3 DEF Bulking, After
  <1>5. CASE q = <<"quit", "start">>
    <2>1. Head(q) = "quit" /\ Tail(q) = <<"start">>
      BY <1>2, <1>5
    <2>2. q # <<"stop", "start">> /\ \A x : q # <<x>>
      BY <1>5, OneIsNotTwo
    <2>3. v = "restart"
      BY <2>2 DEF BulkPlans
    <2>4. QED
      BY <2>1, <2>2, <2>3 DEF Bulking, After
  <1>6. CASE q = <<Head(q)>> /\ Tail(q) = <<>>
    <2> PICK a : a = Head(q)
      OBVIOUS
    <2>1. /\ \A x : q = <<x>> => a = x
          /\ q # <<"stop", "start">> /\ q # <<"quit", "start">>
      BY <1>6, OneIsNotTwo
    <2>2. \/ v = "start" /\ a \in {"start", "await"}
          \/ v = "stop" /\ a \in {"stop", "quit"}
          \/ v = "restart" /\ a \in {"restart", "start", "await"}
          \/ v \notin Lifecycle /\ a \in MpvCall
      BY <2>1 DEF BulkPlans, Lifecycle
    <2>3. \/ a = "start" /\ Settled(n) /\ n \in stopped \ disabled
          \/ a = "await" /\ n \in Expected \ online /\ n \in launching
          \/ a \in {"restart", "stop"} \cup MpvCall /\ Settled(n) /\ n \in online
          \/ a = "quit" /\ n \in (online \cap stopped) \ (launching \cup disabled)
      BY <2>1 DEF Bulking
    <2>4. QED
      BY <1>6, <2>2, <2>3 DEF After, MpvCall, Lifecycle
  <1>7. QED
    BY <1>3, <1>4, <1>5, <1>6

\* A step on n leaves the other targets as they are.
OnlyAt(n) ==
  /\ UNCHANGED <<known, disabled>>
  /\ stopped' \ {n} = stopped \ {n} /\ online' \ {n} = online \ {n}
  /\ launching' \ {n} = launching \ {n}
  /\ \A m \in Name \ {n} : plays'[m] = plays[m]

LEMMA OthersStay ==
  ASSUME NEW n, OnlyAt(n), NEW m \in Name \ {n}
  PROVE  /\ Settled(m)' <=> Settled(m)
         /\ \A q : Bulking(m, q)' <=> Bulking(m, q)
         /\ m \in online' <=> m \in online
         /\ Playing(m)' <=> Playing(m)
  <1>1. /\ m \in known' <=> m \in known
        /\ m \in disabled' <=> m \in disabled
        /\ m \in stopped' <=> m \in stopped
        /\ m \in online' <=> m \in online
        /\ m \in launching' <=> m \in launching
        /\ plays'[m] = plays[m]
    BY DEF OnlyAt
  <1>2. (Playing(m)' <=> Playing(m)) /\ (m \in Expected' <=> m \in Expected)
    BY <1>1 DEF Playing, Expected
  <1>3. Settled(m)' <=> Settled(m)
    BY <1>1, <1>2 DEF Settled
  <1>4. QED
    BY <1>1, <1>2, <1>3 DEF Bulking

LEMMA BulkGoesOn ==
  ASSUME CommandsInv, NEW s \in Shell, BulkOK(s), NEW n \in Name, n = at[s], OnlyAt(n),
         n \in online' <=> Playing(n)', NEW q,
         cmd' = cmd, work' = work, calls'[s] = q, outcome'[s] # "failed",
         at'[s] = IF q = <<>> THEN None ELSE n,
         IF q = <<>> THEN /\ Settled(n)' /\ (cmd[s].verb = "start" => n \notin stopped')
                          /\ cmd[s].verb = "stop" => n \notin online'
                     ELSE q \in BulkPlans(cmd[s].verb) /\ Bulking(n, q)'
  PROVE  BulkOK(s)'
  <1>0. n # None /\ DaemonOK /\ None \notin Name /\ known' = known
    BY CommandsAssumption DEF CommandsInv, OnlyAt
  <1>1. \A m \in Name : m \in online' <=> Playing(m)'
    BY OthersStay DEF BulkOK
  <1>2. \A m \in Name \ {at'[s]} : Settled(m)'
    <2>1. ASSUME NEW m \in Name \ {n} PROVE Settled(m)'
      BY <2>1, OthersStay DEF BulkOK
    <2>2. QED
      BY <2>1
  <1>3. ASSUME NEW m \in DOMAIN work[s]
        PROVE  /\ work[s][m] \in BulkPlans(cmd[s].verb) /\ m # at'[s]
               /\ \A x : x = work[s][m] => Bulking(m, x)'
    <2>1. m \in Name /\ m # n
      BY DEF BulkOK, CommandsInv, ShellsOK, ShellOK
    <2>2. QED
      BY <1>0, <2>1, OthersStay DEF BulkOK
  <1>4. ASSUME at'[s] # None
        PROVE  calls'[s] \in BulkPlans(cmd[s].verb) /\ Bulking(n, q)' /\ at'[s] = n
    BY <1>4
  <1>5. ASSUME cmd[s].verb = "start", NEW m \in (known' \cap stopped') \ disabled'
        PROVE  m \in DOMAIN work[s] \cup {at'[s]}
    <2>1. CASE m = n
      BY <1>5, <2>1
    <2>2. CASE m # n
      BY <1>0, <1>5, <2>2 DEF OnlyAt, BulkOK, Left
    <2>3. QED
      BY <2>1, <2>2
  <1>6. ASSUME cmd[s].verb = "stop", NEW m \in online' PROVE m \in DOMAIN work[s] \cup {at'[s]}
    <2>1. CASE m = n
      BY <1>6, <2>1
    <2>2. CASE m # n
      BY <1>0, <1>6, <2>2 DEF OnlyAt, BulkOK, Left
    <2>3. QED
      BY <2>1, <2>2
  <1>7. cmd[s].verb \in Lifecycle \cup MpvVerb
    BY DEF BulkOK
  <1>8. QED
    BY <1>1, <1>2, <1>3, <1>4, <1>5, <1>6, <1>7 DEF BulkOK, Left

LEMMA BulkServed ==
  ASSUME CommandsInv, NEW s \in Shell, BulkOK(s), Served(s)
  PROVE  BulkOK(s)'
  <1> PICK n, v, q, a : n = at[s] /\ v = cmd[s].verb /\ q = calls[s] /\ a = Head(q)
    OBVIOUS
  <1>0. /\ n # None /\ n \in Name /\ q # <<>> /\ outcome[s] = "running" /\ cmd' = cmd
        /\ DaemonOK /\ ShellsOK /\ (n \in online <=> Playing(n))
        /\ q \in BulkPlans(v) /\ Bulking(n, q)
    BY ServedFrame, ServedCmd DEF CommandsInv, BulkOK
  <1>1. \/ /\ a = "start" /\ Tail(q) = <<>> /\ v \in {"start", "restart"}
           /\ Settled(n) /\ n \in stopped \ disabled
        \/ /\ a = "await" /\ Tail(q) = <<>> /\ v \in {"start", "restart"}
           /\ n \in Expected \ online /\ n \in launching
        \/ a = "restart" /\ Tail(q) = <<>> /\ v = "restart" /\ Settled(n) /\ n \in online
        \/ /\ a = "stop" /\ Tail(q) = After(v) /\ v \in {"stop", "restart"}
           /\ Settled(n) /\ n \in online
        \/ /\ a = "quit" /\ Tail(q) = After(v) /\ v \in {"stop", "restart"}
           /\ n \in (online \cap stopped) \ (launching \cup disabled)
        \/ a \in MpvCall /\ Tail(q) = <<>> /\ v \notin Lifecycle /\ Settled(n) /\ n \in online
    BY <1>0, BulkingCall
  <1>2. ASSUME NEW rest, Proceed(s, rest), OnlyAt(n), n \in online' <=> Playing(n)',
               IF rest = <<>> THEN /\ Settled(n)' /\ (v = "start" => n \notin stopped')
                                   /\ v = "stop" => n \notin online'
                              ELSE rest \in BulkPlans(v) /\ Bulking(n, rest)'
        PROVE  BulkOK(s)'
    <2>1. /\ work' = work /\ calls'[s] = rest /\ outcome'[s] # "failed"
          /\ at'[s] = IF rest = <<>> THEN None ELSE n
      BY <1>0, <1>2, ProceedShape
    <2>2. QED
      BY <1>0, <1>2, <2>1, BulkGoesOn
  <1>3. Rejected(s) => FALSE
    <2>1. CASE a = "await" \/ a = "quit"
      BY <1>0, <1>1, <2>1 DEF Rejected, MpvCall
    <2>2. CASE a \in {"start", "restart", "stop"} \cup MpvCall
      <3>1. n \in known
        BY <1>0, <1>1, <2>2 DEF DaemonOK, MpvCall
      <3>2. a = "start" => n \notin disabled
        BY <1>1 DEF MpvCall
      <3>3. a = "stop" => n \notin stopped
        BY <1>1 DEF MpvCall, Settled, Expected
      <3>4. a \in MpvCall => n \in online /\ Playing(n)
        BY <1>0, <1>1 DEF MpvCall
      <3>5. QED
        BY <1>0, <2>2, <3>1, <3>2, <3>3, <3>4 DEF Rejected, MpvCall
    <2>3. QED
      BY <1>1, <2>1, <2>2
  <1>4. CASE Start(s)
    <2>1. a = "start"
      BY <1>0, <1>4 DEF Start, Call
    <2>2. /\ Tail(q) = <<>> /\ v \in {"start", "restart"} /\ Settled(n) /\ n \in stopped \ disabled
      BY <1>1, <2>1 DEF MpvCall
    <2>3. n \notin online /\ n \notin launching /\ n \in known
      BY <1>0, <2>2 DEF Settled, Expected, DaemonOK
    <2>4. /\ stopped' = stopped \ {n} /\ launching' = launching \cup {n}
          /\ calls' = [calls EXCEPT ![s] = <<"await">> \o Tail(@)]
          /\ UNCHANGED <<known, disabled, online, plays, work, at, outcome>>
      BY <1>0, <1>4, <2>3 DEF Start, Busy, External, mpvVars
    <2>5. calls'[s] = <<"await">> /\ <<"await">> # <<>>
      BY <1>0, <2>2, <2>4, Turn1 DEF ShellsOK
    <2>6. OnlyAt(n) /\ (n \in online' <=> Playing(n)')
      BY <1>0, <2>4 DEF OnlyAt, Playing
    <2>7. Bulking(n, <<"await">>)' /\ <<"await">> \in BulkPlans(v)
      BY <2>2, <2>3, <2>4 DEF Bulking, Expected, BulkPlans
    <2>8. at'[s] = n /\ outcome'[s] # "failed"
      BY <1>0, <2>4
    <2>9. QED
      BY <1>0, <2>4, <2>5, <2>6, <2>7, <2>8, BulkGoesOn
  <1>5. CASE Launches(s)
    <2>1. a = "await" /\ loads[s] # None
      BY <1>0, <1>5 DEF Launches, Call, ShellsOK, ShellOK
    <2>2. Tail(q) = <<>> /\ v \in {"start", "restart"} /\ n \in Expected \ online /\ n \in launching
      BY <1>1, <2>1 DEF MpvCall
    <2>3. Proceed(s, <<>>) /\ n \in known /\ Launched(n, loads[s])
      BY <1>0, <1>5, <2>2 DEF Launches, Done, Expected
    <2>4. /\ plays'[n] = loads[s] /\ \A m \in Name \ {n} : plays'[m] = plays[m]
          /\ online' = online \cup {n} /\ launching' = launching \ {n}
          /\ UNCHANGED <<known, disabled, stopped>>
      <3>1. plays' = [plays EXCEPT ![n] = IF Playing(n) THEN @ ELSE loads[s]]
        BY <2>3 DEF Launched
      <3>2. plays'[n] = loads[s] /\ \A m \in Name \ {n} : plays'[m] = plays[m]
        BY <1>0, <2>2, <3>1 DEF DaemonOK
      <3>3. online' = online \cup {n} /\ launching' = launching \ {n}
        BY <2>2, <2>3 DEF Launched
      <3>4. QED
        BY <1>5, <3>2, <3>3 DEF Launches
    <2>5. OnlyAt(n) /\ n \in online' /\ Playing(n)'
      BY <1>0, <2>1, <2>4 DEF OnlyAt, Playing
    <2>6. Settled(n)' /\ n \notin stopped'
      BY <2>2, <2>4, <2>5 DEF Settled, Expected
    <2>7. QED
      BY <1>2, <2>2, <2>3, <2>5, <2>6
  <1>6. CASE Stop(s)
    <2>1. a = "stop" /\ UNCHANGED <<known, disabled, online, launching, plays>>
          /\ stopped' = stopped \cup {n}
      BY <1>0, <1>6 DEF Stop, Call, External, mpvVars
    <2>2. Tail(q) = After(v) /\ v \in {"stop", "restart"} /\ Settled(n) /\ n \in online
      BY <1>1, <2>1 DEF MpvCall
    <2>3. PICK rest : rest = <<"quit">> \o After(v)
      OBVIOUS
    <2>4. Proceed(s, rest)
      BY <1>0, <1>6, <2>2, <2>3 DEF Stop, Instead
    <2>5. rest \in {<<"quit">>, <<"quit", "start">>} /\ rest # <<>> /\ rest \in BulkPlans(v)
      <3>1. CASE v = "stop"
        BY <2>3, <3>1, Turn1 DEF After, BulkPlans
      <3>2. CASE v = "restart"
        BY <2>3, <3>2, Joined, Turn2 DEF After, BulkPlans
      <3>3. QED
        BY <2>2, <3>1, <3>2
    <2>6. OnlyAt(n) /\ (n \in online' <=> Playing(n)')
      BY <1>0, <2>1 DEF OnlyAt, Playing
    <2>7. Bulking(n, rest)'
      BY <2>1, <2>2, <2>5 DEF Bulking, Settled, Expected
    <2>8. QED
      BY <1>2, <2>4, <2>5, <2>6, <2>7
  <1>7. CASE Quits(s)
    <2>1. a = "quit"
      BY <1>0, <1>7 DEF Quits, Call
    <2>2. /\ Tail(q) = After(v) /\ v \in {"stop", "restart"}
          /\ n \in (online \cap stopped) \ (launching \cup disabled)
      BY <1>1, <2>1 DEF MpvCall
    <2>3. PICK rest : rest = After(v)
      OBVIOUS
    <2>4. Proceed(s, rest) /\ Gone(n) /\ UNCHANGED <<known, disabled, stopped>>
      BY <1>0, <1>7, <2>2, <2>3 DEF Quits, Done, DaemonOK
    <2>5. /\ online' = online \ {n} /\ launching' = launching \ {n}
          /\ plays' = [plays EXCEPT ![n] = None]
      BY <2>2, <2>4 DEF Gone
    <2>6. OnlyAt(n) /\ n \notin online' /\ ~Playing(n)'
      BY <1>0, <2>4, <2>5 DEF OnlyAt, Playing, DaemonOK
    <2>7. Settled(n)' /\ n \in stopped' \ disabled'
      BY <2>2, <2>4, <2>5, <2>6 DEF Settled, Expected
    <2>8. CASE v = "stop"
      <3>1. rest = <<>> /\ Proceed(s, <<>>) /\ v # "start"
        BY <2>3, <2>4, <2>8 DEF After
      <3>2. QED
        BY <1>2, <2>6, <2>7, <2>8, <3>1
    <2>9. CASE v = "restart"
      <3>1. rest = <<"start">> /\ rest # <<>> /\ rest \in BulkPlans(v)
        BY <2>3, <2>9, Turn1 DEF After, BulkPlans
      <3>2. Bulking(n, rest)'
        BY <2>7, <3>1 DEF Bulking
      <3>3. QED
        BY <1>2, <2>4, <2>6, <3>1, <3>2
    <2>10. QED
      BY <2>2, <2>8, <2>9
  <1>8. CASE Restart(s)
    <2>1. a = "restart"
      BY <1>0, <1>8 DEF Restart, Call
    <2>2. Tail(q) = <<>> /\ v = "restart" /\ Settled(n) /\ n \in online /\ n \notin stopped
      BY <1>1, <2>1 DEF MpvCall, Settled, Expected
    <2>3. /\ Proceed(s, RestartCalls(n) \o <<>>)
          /\ UNCHANGED <<flagVars, plays>>
      BY <1>0, <1>8, <2>2 DEF Restart, Instead, External, mpvVars
    <2>4. RestartCalls(n) \o <<>> = <<"stop", "start">> /\ <<"stop", "start">> # <<>>
      BY <2>2, Turn2 DEF RestartCalls
    <2>5. OnlyAt(n) /\ (n \in online' <=> Playing(n)') /\ Settled(n)' /\ n \in online'
      BY <1>0, <2>2, <2>3 DEF OnlyAt, Playing, Settled, Expected, flagVars
    <2>6. Bulking(n, <<"stop", "start">>)' /\ <<"stop", "start">> \in BulkPlans(v)
      BY <2>2, <2>5 DEF Bulking, BulkPlans
    <2>7. QED
      BY <1>2, <2>3, <2>4, <2>5, <2>6
  <1>9. CASE RestartDisabled(s)
    <2>1. a = "restart" /\ n \in disabled
      BY <1>0, <1>9 DEF RestartDisabled, Call
    <2>2. QED
      BY <1>1, <2>1 DEF MpvCall, Settled, Expected
  <1>10. CASE MpvCommand(s)
    <2>1. a \in MpvCall /\ Done(s) /\ UNCHANGED <<flagVars, plays>>
      BY <1>0, <1>10 DEF MpvCommand
    <2>2. Tail(q) = <<>> /\ v \notin Lifecycle /\ Settled(n) /\ n \in online
      BY <1>1, <2>1 DEF MpvCall
    <2>3. OnlyAt(n) /\ (n \in online' <=> Playing(n)') /\ Settled(n)'
      BY <1>0, <2>1, <2>2 DEF OnlyAt, Playing, Settled, Expected, flagVars
    <2>4. Proceed(s, <<>>)
      BY <1>0, <2>1, <2>2 DEF Done
    <2>5. QED
      BY <1>2, <2>2, <2>3, <2>4 DEF Lifecycle
  <1>11. CASE \/ EnableTarget(s) \/ StopFirst(s) \/ DisableTarget(s) \/ Resolve(s)
              \/ SetChannel(s) \/ Add(s) \/ Forget(s) \/ Rename(s)
    <2>1. a \in {"enable", "disable", "remove", "disable now", "forget", "rename", "resolve",
                 "set-channel", "add"}
      BY <1>0, <1>11
         DEF EnableTarget, StopFirst, DisableTarget, Resolve, SetChannel, Add, Forget, Rename, Call
    <2>2. QED
      BY <1>1, <2>1 DEF MpvCall
  <1>12. QED
    BY <1>3, <1>4, <1>5, <1>6, <1>7, <1>8, <1>9, <1>10, <1>11 DEF Served, Refused

LEMMA BulkTake ==
  ASSUME CommandsInv, NEW s \in Shell, BulkOK(s), Take(s)
  PROVE  BulkOK(s)'
  <1>1. PICK n \in DOMAIN work[s] :
          /\ n \in Name /\ n # None
          /\ at'[s] = n /\ calls'[s] = work[s][n]
          /\ work'[s] = [m \in DOMAIN work[s] \ {n} |-> work[s][m]]
    BY TakeShape
  <1>2. /\ cmd' = cmd /\ outcome' = outcome /\ at[s] = None /\ None \notin Name
        /\ UNCHANGED <<known, disabled, stopped, online, launching, plays>>
        /\ DaemonOK
    BY TakeShape, CommandsAssumption DEF flagVars, mpvVars, CommandsInv
  <1>3. \A m : /\ Settled(m)' <=> Settled(m)
               /\ Playing(m)' <=> Playing(m)
               /\ \A q : Bulking(m, q)' <=> Bulking(m, q)
    BY <1>2 DEF Settled, Playing, Expected, Bulking
  <1>4. ASSUME NEW m \in DOMAIN work'[s]
        PROVE  /\ work'[s][m] \in BulkPlans(cmd[s].verb) /\ m # at'[s]
               /\ \A x : x = work'[s][m] => Bulking(m, x)'
    BY <1>1, <1>3 DEF BulkOK
  <1>5. /\ calls'[s] \in BulkPlans(cmd[s].verb)
        /\ \A m, x : m = at'[s] /\ x = calls'[s] => Bulking(m, x)'
    BY <1>1, <1>3 DEF BulkOK
  <1>6. /\ \A m \in Name : m \in online' <=> Playing(m)'
        /\ \A m \in Name \ {at'[s]} : Settled(m)'
    BY <1>2, <1>3 DEF BulkOK
  <1>7. /\ cmd[s].verb = "start" =>
             (known' \cap stopped') \ disabled' \subseteq DOMAIN work'[s] \cup {at'[s]}
        /\ cmd[s].verb = "stop" => online' \subseteq DOMAIN work'[s] \cup {at'[s]}
    BY <1>1, <1>2 DEF BulkOK, Left, DaemonOK
  <1>8. QED
    BY <1>2, <1>4, <1>5, <1>6, <1>7 DEF BulkOK, Left

LEMMA BulkIssue ==
  ASSUME CommandsInv, NEW s \in Shell, Issue(s), AtRest, cmd'[s].all
  PROVE  BulkOK(s)'
  <1> PICK c : c = cmd'[s]
    OBVIOUS
  <1>1. /\ at'[s] = None /\ UNCHANGED <<known, disabled, stopped, online, launching, plays>>
        /\ c \in Command /\ Valid(c) /\ c.all
        /\ work'[s] = [n \in Chosen(c) |-> Script(c, n)]
        /\ outcome'[s] # "failed" /\ None \notin Name /\ DaemonOK
    BY IssueShape, CommandsAssumption DEF flagVars, mpvVars, CommandsInv
  <1>2. c.verb \in Lifecycle \cup (MpvVerb \ {"loop"})
    BY <1>1 DEF Valid
  <1>3. ASSUME NEW n \in Name
        PROVE  Settled(n)' /\ (n \in online' <=> Playing(n)')
    BY <1>1, RestSettles DEF Settled, Expected, Playing
  <1>4. online = Expected
    BY DEF AtRest
  <1>5. ASSUME NEW n \in Chosen(c)
        PROVE  n \in Name /\ \A q : q = Script(c, n) => q \in BulkPlans(c.verb) /\ Bulking(n, q)'
    <2>1. n \in Name
      BY <1>1, ChosenOK
    <2>2. CASE c.verb = "start"
      <3>1. n \in stopped' \ disabled' /\ Script(c, n) = <<"start">>
        BY <1>1, <2>2 DEF Chosen, Script
      <3>2. QED
        BY <1>3, <2>1, <2>2, <3>1 DEF Bulking, BulkPlans
    <2>3. CASE c.verb \in {"stop", "restart"}
      <3>1. n \in online' /\ Script(c, n) = <<c.verb>>
        BY <1>1, <2>3 DEF Chosen, Script
      <3>2. QED
        BY <1>3, <2>1, <2>3, <3>1 DEF Bulking, BulkPlans
    <2>4. CASE c.verb \in MpvVerb \ {"loop"}
      <3>1. n \in online'
        BY <1>1, <2>4 DEF Chosen, MpvVerb
      <3>2. \E a \in MpvCall : Script(c, n) = <<a>>
        BY <1>1, <2>4 DEF Script, Together, MpvVerb, MpvCall
      <3>3. QED
        BY <1>3, <2>1, <2>4, <3>1, <3>2 DEF Bulking, BulkPlans, MpvVerb
    <2>5. QED
      BY <1>2, <2>2, <2>3, <2>4 DEF Lifecycle
  <1>6. /\ c.verb = "start" => (known' \cap stopped') \ disabled' \subseteq DOMAIN work'[s]
        /\ c.verb = "stop" => online' \subseteq DOMAIN work'[s]
    BY <1>1, <1>4 DEF Chosen, Expected
  <1>7. QED
    BY <1>1, <1>2, <1>3, <1>5, <1>6 DEF BulkOK, Left

LEMMA BulkStep ==
  ASSUME CommandsInv, Alone, BulkInv, [CommandsNext]_commandsVars
  PROVE  BulkInv'
  <1> SUFFICES ASSUME NEW s \in Shell, calm' = s, cmd'[s].all PROVE BulkOK(s)'
    BY DEF BulkInv
  <1>1. CASE Issue(s) /\ AtRest
    BY <1>1, BulkIssue
  <1>2. ASSUME calm = s, cmd' = cmd PROVE BulkOK(s)
    BY <1>2 DEF BulkInv
  <1>3. CASE calm = s /\ Take(s)
    BY <1>2, <1>3, BulkTake, TakeShape
  <1>4. CASE calm = s /\ Served(s)
    BY <1>2, <1>4, ServedCmd, BulkServed
  <1>5. CASE calm = s /\ Unmoved
    BY <1>2, <1>5 DEF Unmoved, flagVars, mpvVars, shellVars, BulkOK, Bulking, Left, Settled,
                      Expected, Playing
  <1>6. QED
    BY <1>1, <1>3, <1>4, <1>5, CalmStep

\* For every set of names, shells and commands and whatever may go wrong: a
\* command on all targets that nothing disturbs is refused nothing and leaves no
\* target out.
THEOREM BulkReachesAll == CommandsSpec => []BulkCompletes
  <1>1. ASSUME CommandsInv, BulkInv PROVE BulkCompletes
    <2> SUFFICES ASSUME NEW s \in Shell, calm = s, cmd[s].all
                 PROVE  /\ outcome[s] # "failed"
                        /\ outcome[s] = "ok" =>
                             CASE cmd[s].verb = "start" -> known \ disabled = online \ stopped
                               [] cmd[s].verb = "stop" -> Expected = {} /\ online = {}
                               [] OTHER -> Expected = online
      BY DEF BulkCompletes
    <2>1. BulkOK(s) /\ DaemonOK /\ ShellOK(s)
      BY <1>1 DEF BulkInv, CommandsInv, ShellsOK
    <2>2. outcome[s] # "failed"
      BY <2>1 DEF BulkOK
    <2>3. ASSUME outcome[s] = "ok"
          PROVE  /\ Expected = online
                 /\ cmd[s].verb = "start" => (known \cap stopped) \ disabled = {}
                 /\ cmd[s].verb = "stop" => online = {}
      <3>1. DOMAIN work[s] = {} /\ at[s] = None /\ None \notin Name
        BY <2>1, <2>3, CommandsAssumption DEF ShellOK
      <3>2. known \subseteq Name /\ online \subseteq known /\ Expected \subseteq known
        BY <2>1 DEF DaemonOK, Expected
      <3>3. \A n \in Name : n \in online <=> n \in Expected
        BY <2>1, <3>1 DEF BulkOK, Settled
      <3>4. QED
        BY <2>1, <3>1, <3>2, <3>3 DEF BulkOK, Left
    <2>4. QED
      BY <2>1, <2>2, <2>3 DEF Expected, DaemonOK
  <1>2. CommandsInit => Alone /\ BulkInv
    BY CalmBegins
  <1>3. CommandsInv /\ Alone /\ BulkInv /\ [CommandsNext]_commandsVars => Alone' /\ BulkInv'
    BY AloneStep, BulkStep
  <1>4. QED
    BY <1>1, <1>2, <1>3, CommandsHold, PTL DEF CommandsSpec
===============================================================================
