----------------------------- MODULE CliProofs ------------------------------
(***************************************************************************)
(* What the command promises for every file, every firmware, any capacity  *)
(* of the buffers, and streams that fail or are closed at any time.        *)
(***************************************************************************)
EXTENDS Cli, MachineProofs, SequenceTheorems

-----------------------------------------------------------------------------
(* The process drives the machine through its own calls only. *)
LEMMA ProcessStepsMachine ==
    ASSUME [CliNext]_vars
    PROVE  [MachineNext]_machineVars
<1>1. CASE ReadImage
  BY <1>1 DEF ReadImage, MachineNext
<1>2. CASE Loading
  BY <1>2 DEF Loading, MachineNext
<1>3. CASE Loaded
  BY <1>3 DEF Loaded, MachineNext
<1>4. CASE RunFirmware
  BY <1>4 DEF RunFirmware, MachineNext
<1>5. CASE Parse \/ Stat \/ FileChanges \/ ReadFails
  BY <1>5 DEF Parse, Stat, FileChanges, ReadFails
<1>6. CASE Flush \/ DropSink
  BY <1>6 DEF Flush, FlushOrLeave, DropSink, DropWriter
<1>7. CASE Report \/ ReportFault \/ Complain
  BY <1>7 DEF Report, ReportFault, Complain
<1>8. CASE UNCHANGED vars
  BY <1>8 DEF vars
<1> QED BY <1>1, <1>2, <1>3, <1>4, <1>5, <1>6, <1>7, <1>8 DEF CliNext, Process

-----------------------------------------------------------------------------
(* Where the process is and where the machine is: the one run lies between *)
(* the load and the flush, and the codes about the firmware are those of   *)
(* its summary.                                                            *)
BeforeLoad == {"parse", "stat", "read"}
AfterRun == {"flush", "flush_trace", "report", "report_fault"}
Runs == {"run", "run_trace"}

StageInv ==
    /\ args \in {"invalid", "help", "run", "run_trace"} /\ closed \subseteq Stream
    /\ exit \in {OK, USAGE, BUDGET, FAULT, Panic, NoExit} /\ (exit # NoExit <=> stage = "exit")
    /\ stage \in BeforeLoad \cup {"load"} => runs = 0
    /\ stage \in AfterRun \cup {"run"} => runs = 1
    /\ stage = "run" <=> control # "host"
    /\ loading => stage = "load"
    /\ owed = 0
    /\ runs = 1 /\ control = "host" => summary.halt_reason \in HaltReason
    /\ exit \in {OK, BUDGET, FAULT} /\ args \in Runs =>
          runs = 1 /\ exit = ExitCode(summary.halt_reason)

(* A run that returns has a summary with a reason. *)
LEMMA RunningEffect ==
    ASSUME MachineInv, Running
    PROVE  /\ control # "host" /\ UNCHANGED <<loading, runs>>
           /\ (owed = 0 => owed' = 0)
           /\ (control' = "host" => summary'.halt_reason \in HaltReason)
<1>1. CASE LoopEnds
  BY <1>1 DEF LoopEnds, loaderVars
<1>2. CASE RunStep
  BY <1>2 DEF RunStep, loaderVars
<1>3. CASE DrainAfterStep
  BY <1>3, DrainEffect DEF DrainAfterStep, loaderVars
<1>4. CASE FinishRun
  <2>1. halt \in HaltReason \cup {"None"}
    BY DEF MachineInv, MachineTypeOK, CpuTypeOK
  <2>2. summary'.halt_reason = IF halt = "None" THEN "StepBudgetExhausted" ELSE halt
    BY <1>4 DEF FinishRun, Summary
  <2> QED BY <1>4, <2>1, <2>2, DrainEffect DEF FinishRun, loaderVars, HaltReason
<1> QED BY <1>1, <1>2, <1>3, <1>4 DEF Running

LEMMA StageStep ==
    ASSUME MachineInv, StageInv, [CliNext]_vars
    PROVE  StageInv'
<1> DEFINE machineSame == UNCHANGED <<control, loading, runs, owed, summary>>
<1>0. loading => control = "host"
  BY DEF MachineInv, MachineTypeOK
<1>a. UNCHANGED machineVars => machineSame
  BY DEF machineVars, loaderVars, runVars
<1>b. ASSUME NEW s \in Stream, NEW k, NEW rest, FlushBuf(s, k, rest)
      PROVE  closed' \subseteq Stream
  BY <1>b DEF FlushBuf, Refuses, StageInv
<1>c. ASSUME NEW message, Eprintln(message)
      PROVE  closed' \subseteq Stream
  BY <1>c DEF Eprintln, Refuses, StageInv, Stream
<1>d. summary.halt_reason \in HaltReason => ExitCode(summary.halt_reason) \in {OK, BUDGET, FAULT}
  BY DEF ExitCode, IsClean, HaltReason
<1> USE DEF StageInv, BeforeLoad, AfterRun, Runs, OK, USAGE, BUDGET, FAULT, Panic, NoExit
<1>1. CASE Parse
  <2>1. machineSame /\ UNCHANGED <<args, closed>>
    BY <1>1, <1>a DEF Parse, given
  <2> QED BY <1>1, <2>1 DEF Parse, Exit, ClapUsage
<1>2. CASE Stat \/ FileChanges \/ ReadFails
  <2>1. machineSame /\ UNCHANGED <<args, closed, exit>>
    BY <1>2, <1>a DEF Stat, FileChanges, ReadFails, given
  <2> QED BY <1>2, <2>1 DEF Stat, FileChanges, ReadFails
<1>3. CASE ReadImage
  BY <1>3 DEF ReadImage, StartLoadElf, BeginLoad, runVars, given, Idle
<1>4. CASE Loading
  BY <1>0, <1>4, LoadElfEffect DEF Loading, cliVars, runVars
<1>5. CASE Loaded
  <2>1. UNCHANGED <<args, closed, exit>> /\ stage = "load" /\ ~ loading
    BY <1>5 DEF Loaded, given
  <2>2. CASE StartRun /\ stage' = "run"
    BY <2>1, <2>2 DEF StartRun, loaderVars
  <2>3. CASE UNCHANGED machineVars /\ stage' = "complain"
    BY <2>1, <2>3, <1>a
  <2> QED BY <1>5, <2>2, <2>3 DEF Loaded
<1>6. CASE RunFirmware
  <2>1. /\ Running /\ stage = "run" /\ UNCHANGED <<args, exit>>
        /\ stage' = IF control' = "host" THEN "flush" ELSE "run"
    BY <1>6 DEF RunFirmware, given
  <2>2. closed' \subseteq Stream
    <3>1. ASSUME NEW s \in Stream, NEW units, WriteAll(s, units)
          PROVE  closed' \subseteq Stream
      BY <3>1, <1>b DEF WriteAll
    <3>2. ASSUME NEW event, Observe(event) PROVE closed' \subseteq Stream
      BY <3>1, <3>2 DEF Observe, Stream
    <3> QED BY <1>6, <3>2 DEF RunFirmware
  <2> QED BY <2>1, <2>2, RunningEffect
<1>7. CASE Flush \/ DropSink
  <2>1. machineSame /\ UNCHANGED <<args, exit>> /\ closed' \subseteq Stream
    BY <1>7, <1>a, <1>b DEF Flush, FlushOrLeave, DropSink, DropWriter, given, Stream
  <2> QED BY <1>7, <2>1 DEF Flush, FlushOrLeave, DropSink, DropWriter
<1>8. CASE Report \/ ReportFault \/ Complain
  <2>1. machineSame /\ UNCHANGED args /\ closed' \subseteq Stream
    BY <1>8, <1>a, <1>c DEF Report, ReportFault, Complain, given
  <2> HIDE DEF machineSame
  <2>2. CASE Report
    BY <2>1, <2>2, <1>d DEF Report, Exit, machineSame
  <2>3. CASE ReportFault
    BY <2>1, <2>3, <1>d DEF ReportFault, Exit, machineSame
  <2>4. CASE Complain
    BY <2>1, <2>4 DEF Complain, Exit, machineSame
  <2> QED BY <1>8, <2>2, <2>3, <2>4
<1>9. CASE UNCHANGED vars
  <2>1. machineSame /\ UNCHANGED cliVars
    BY <1>9, <1>a DEF vars
  <2> QED BY <2>1 DEF cliVars
<1> QED BY <1>1, <1>2, <1>3, <1>4, <1>5, <1>6, <1>7, <1>8, <1>9 DEF CliNext, Process
(* The machine and the process, joined. *)
CliInv == MachineInv /\ OutputInv /\ LogInv /\ StageInv

LEMMA CliInitStage == CliInit => CliInv
<1> SUFFICES ASSUME CliInit PROVE CliInv
  OBVIOUS
<1>1. MachineInv /\ OutputInv /\ LogInv
  <2>1. MachineInv
    BY MachineInitType DEF CliInit
  <2>2. OutputInv
    BY DEF CliInit, MachineInit, LoaderInit, BusInit, OutputInv
  <2>3. LogInv
    <3>1. <<>> \in Seq({})
      OBVIOUS
    <3> QED BY <3>1 DEF CliInit, MachineInit, LogInv
  <2> QED BY <2>1, <2>2, <2>3
<1>2. StageInv
  BY DEF CliInit, MachineInit, LoaderInit, StageInv, BeforeLoad, AfterRun, Runs, OK, USAGE, BUDGET,
         FAULT, Panic, NoExit, Stream
<1> QED BY <1>1, <1>2 DEF CliInv

LEMMA CliStepStage ==
    ASSUME CliInv, [CliNext]_vars
    PROVE  CliInv'
BY ProcessStepsMachine, MachineStepType, OutputStep, LogStep, StageStep DEF CliInv

LEMMA CliInductive == CliSpec => []CliInv
BY CliInitStage, CliStepStage, PTL DEF CliSpec

(* A closed pipe neither changes what the emulated CPU does nor keeps the  *)
(* machine from getting to the end of its run before the process exits.    *)
THEOREM PipesDoNotDisturb == CliSpec => MachineUndisturbed
<1>1. CliInit => MachineInit
  BY DEF CliInit
<1>2. CliInv => (exit # NoExit => Idle)
  BY DEF CliInv, MachineInv, MachineTypeOK, StageInv, Idle
<1> QED BY <1>1, <1>2, ProcessStepsMachine, CliInductive, PTL DEF CliSpec, MachineUndisturbed

(* The exit codes that speak of the firmware are given only to firmware    *)
(* that has run and ended so.                                              *)
THEOREM ExitCodesAreHonest == CliSpec => []ExitCodeNeverFlatters
<1>1. CliInv => ExitCodeNeverFlatters
  <2> SUFFICES ASSUME StageInv, exit # NoExit, args \in Runs
               PROVE  /\ exit = OK => runs = 1 /\ IsClean(summary.halt_reason)
                      /\ exit = BUDGET => runs = 1 /\ summary.halt_reason = "StepBudgetExhausted"
                      /\ exit = FAULT => runs = 1 /\ summary.halt_reason \in Fault
    BY DEF CliInv, ExitCodeNeverFlatters, Runs
  <2>1. CASE exit \in {OK, BUDGET, FAULT}
    <3>1. runs = 1 /\ exit = ExitCode(summary.halt_reason) /\ summary.halt_reason \in HaltReason
      BY <2>1 DEF StageInv, OK, BUDGET, FAULT, NoExit
    <3> QED BY <3>1 DEF ExitCode, IsClean, HaltReason, Fault, ErrorKind, OK, BUDGET, FAULT
  <2> QED BY <2>1
<1> QED BY <1>1, CliInductive, PTL

-----------------------------------------------------------------------------
(* Sequences cut in two, and the beginnings of others. *)
LEMMA Cut ==
    ASSUME NEW U, NEW b \in Seq(U), NEW k \in 0 .. Len(b)
    PROVE  /\ SubSeq(b, 1, k) \in Seq(U) /\ Len(SubSeq(b, 1, k)) = k
           /\ SubSeq(b, k + 1, Len(b)) \in Seq(U)
           /\ Len(SubSeq(b, k + 1, Len(b))) = Len(b) - k
           /\ SubSeq(b, 1, k) \o SubSeq(b, k + 1, Len(b)) = b
           /\ \A i \in 1 .. k : SubSeq(b, 1, k)[i] = b[i]
<1>1. Len(b) \in Nat /\ \A i \in 1 .. Len(b) : b[i] \in U
  BY LenProperties
<1>2. \A i \in 1 .. k : b[i] \in U
  BY <1>1
<1>3. \A i \in k + 1 .. Len(b) : b[i] \in U
  BY <1>1
<1>4. /\ SubSeq(b, 1, k) \in Seq(U) /\ Len(SubSeq(b, 1, k)) = k
      /\ \A i \in 1 .. k : SubSeq(b, 1, k)[i] = b[i]
  BY <1>1, <1>2, SubSeqProperties
<1>5. /\ SubSeq(b, k + 1, Len(b)) \in Seq(U)
      /\ Len(SubSeq(b, k + 1, Len(b))) = Len(b) - k
  BY <1>1, <1>3, SubSeqProperties
<1>6. SubSeq(b, 1, k) \o SubSeq(b, k + 1, Len(b)) = b
  <2>1. SubSeq(b, 1, k) \o SubSeq(b, k + 1, Len(b)) = SubSeq(b, 1, Len(b))
    <3>1. 1 \in 1 .. Len(b) + 1 /\ k \in 1 - 1 .. Len(b) /\ Len(b) \in k .. Len(b)
      BY <1>1
    <3> QED BY <3>1, ConcatAdjacentSubSeq
  <2> QED BY <2>1, SubSeqFull
<1> QED BY <1>4, <1>5, <1>6

LEMMA Rejoin ==
    ASSUME NEW U, NEW a \in Seq(U), NEW b \in Seq(U), NEW k \in 0 .. Len(b)
    PROVE  (a \o SubSeq(b, 1, k)) \o SubSeq(b, k + 1, Len(b)) = a \o b
<1> DEFINE c == SubSeq(b, 1, k)
           d == SubSeq(b, k + 1, Len(b))
<1>1. c \in Seq(U) /\ d \in Seq(U)
  BY Cut
<1>2. c \o d = b
  BY Cut
<1> HIDE DEF c, d
<1>3. (a \o c) \o d = a \o (c \o d)
  BY <1>1
<1>4. (a \o c) \o d = a \o b
  BY <1>2, <1>3
<1> QED BY <1>4 DEF c, d

LEMMA ConcatOf ==
    ASSUME NEW U, NEW s \in Seq(U), NEW t \in Seq(U)
    PROVE  /\ s \o t \in Seq(U) /\ Len(s \o t) = Len(s) + Len(t)
           /\ \A i \in 1 .. Len(s) + Len(t) :
                 (s \o t)[i] = IF i <= Len(s) THEN s[i] ELSE t[i - Len(s)]
BY ConcatProperties

LEMMA PrefixPointwise ==
    ASSUME NEW U, NEW s \in Seq(U), NEW t \in Seq(U)
    PROVE  S!IsPrefix(s, t) <=> Len(s) <= Len(t) /\ \A i \in 1 .. Len(s) : s[i] = t[i]
<1>1. Len(s) \in Nat /\ Len(t) \in Nat /\ SubSeq(s, 1, Len(s)) = s
  BY LenProperties, SubSeqFull
<1>2. CASE Len(s) <= Len(t)
  <2>1. /\ SubSeq(t, 1, Len(s)) \in Seq(U) /\ Len(SubSeq(t, 1, Len(s))) = Len(s)
        /\ \A i \in 1 .. Len(s) : SubSeq(t, 1, Len(s))[i] = t[i]
    BY <1>1, <1>2, Cut
  <2>2. ASSUME \A i \in 1 .. Len(s) : s[i] = t[i]
        PROVE  s = SubSeq(t, 1, Len(s))
    BY <2>1, <2>2, SeqEqual
  <2> QED BY <1>1, <1>2, <2>1, <2>2 DEF S!IsPrefix
<1> QED BY <1>1, <1>2 DEF S!IsPrefix

LEMMA PrefixOfConcat ==
    ASSUME NEW U, NEW s \in Seq(U), NEW t \in Seq(U), NEW k \in 0 .. Len(t)
    PROVE  S!IsPrefix(s \o SubSeq(t, 1, k), s \o t)
<1>1. Len(s) \in Nat /\ Len(t) \in Nat
  BY LenProperties
<1>2. /\ SubSeq(t, 1, k) \in Seq(U) /\ Len(SubSeq(t, 1, k)) = k
      /\ \A i \in 1 .. k : SubSeq(t, 1, k)[i] = t[i]
  BY Cut
<1> DEFINE c == SubSeq(t, 1, k)
<1> HIDE DEF c
<1>3. /\ s \o c \in Seq(U) /\ Len(s \o c) = Len(s) + k
      /\ \A i \in 1 .. Len(s) + k : (s \o c)[i] = IF i <= Len(s) THEN s[i] ELSE c[i - Len(s)]
  BY <1>2, ConcatProperties DEF c
<1>4. /\ s \o t \in Seq(U) /\ Len(s \o t) = Len(s) + Len(t)
      /\ \A i \in 1 .. Len(s) + Len(t) :
            (s \o t)[i] = IF i <= Len(s) THEN s[i] ELSE t[i - Len(s)]
  BY ConcatProperties
<1>5. \A i \in 1 .. Len(s) + k : (s \o c)[i] = (s \o t)[i]
  BY <1>1, <1>2, <1>3, <1>4 DEF c
<1>6. S!IsPrefix(s \o c, s \o t)
  <2>1. Len(s \o c) <= Len(s \o t) /\ \A i \in 1 .. Len(s \o c) : (s \o c)[i] = (s \o t)[i]
    BY <1>1, <1>3, <1>4, <1>5
  <2> QED BY <1>3, <1>4, <2>1, PrefixPointwise
<1> QED BY <1>6 DEF c

LEMMA PrefixOfWhole ==
    ASSUME NEW U, NEW s \in Seq(U), NEW t \in Seq(U)
    PROVE  S!IsPrefix(s, s \o t)
<1>1. Len(s) \in Nat /\ Len(t) \in Nat
  BY LenProperties
<1>2. /\ s \o t \in Seq(U) /\ Len(s \o t) = Len(s) + Len(t)
      /\ \A i \in 1 .. Len(s) + Len(t) :
            (s \o t)[i] = IF i <= Len(s) THEN s[i] ELSE t[i - Len(s)]
  BY ConcatProperties
<1>3. Len(s) <= Len(s \o t) /\ \A i \in 1 .. Len(s) : s[i] = (s \o t)[i]
  BY <1>1, <1>2
<1> QED BY <1>2, <1>3, PrefixPointwise

LEMMA PrefixExtends ==
    ASSUME NEW U, NEW s \in Seq(U), NEW t \in Seq(U), NEW u \in Seq(U), S!IsPrefix(s, t)
    PROVE  S!IsPrefix(s, t \o u)
<1>1. Len(s) \in Nat /\ Len(t) \in Nat /\ Len(u) \in Nat
  BY LenProperties
<1>2. Len(s) <= Len(t) /\ \A i \in 1 .. Len(s) : s[i] = t[i]
  BY PrefixPointwise
<1>3. /\ t \o u \in Seq(U) /\ Len(t \o u) = Len(t) + Len(u)
      /\ \A i \in 1 .. Len(t) + Len(u) :
            (t \o u)[i] = IF i <= Len(t) THEN t[i] ELSE u[i - Len(t)]
  BY ConcatProperties
<1>4. \A i \in 1 .. Len(s) : s[i] = (t \o u)[i]
  BY <1>1, <1>2, <1>3
<1>5. Len(s) <= Len(t \o u)
  BY <1>1, <1>2, <1>3
<1> QED BY <1>3, <1>4, <1>5, PrefixPointwise

-----------------------------------------------------------------------------
(* What a call does to its stream: the units that have left the buffer and *)
(* those in it, one after the other.                                       *)
Through(s) == host[s] \o buffer[s]
Passed(s, k) == host[s] \o SubSeq(buffer[s], 1, k)

StreamsIn(U) == buffer \in [Stream -> Seq(U)] /\ host \in [Stream -> Seq(U)]

OnlyStream(s) == \A other \in Stream \ {s} : /\ host'[other] = host[other]
                                             /\ buffer'[other] = buffer[other]

LEMMA FlushBufEffect ==
    ASSUME NEW U, StreamsIn(U), NEW s \in Stream, NEW k \in Prefixes(s), NEW rest \in Seq(U),
           FlushBuf(s, k, rest)
    PROVE  /\ StreamsIn(U)' /\ OnlyStream(s)
           /\ host'[s] = Passed(s, k) /\ buffer'[s] = rest
           /\ (s \in closed => k = 0 /\ host'[s] = host[s])
           /\ closed \subseteq closed' /\ closed' \subseteq closed \cup {s}
           /\ (~ Taken(s, k) => retryable \/ s \in closed')
<1>1. buffer[s] \in Seq(U) /\ host[s] \in Seq(U)
  BY DEF StreamsIn
<1>2. SubSeq(buffer[s], 1, k) \in Seq(U) /\ Len(SubSeq(buffer[s], 1, k)) = k
  BY <1>1, Cut DEF Prefixes
<1>3. host[s] \o SubSeq(buffer[s], 1, k) \in Seq(U)
  BY <1>1, <1>2, ConcatProperties
<1>4. /\ host' = [host EXCEPT ![s] = host[s] \o SubSeq(buffer[s], 1, k)]
      /\ buffer' = [buffer EXCEPT ![s] = rest]
      /\ (s \in closed => k = 0)
  BY DEF FlushBuf
<1>5. s \in closed => host'[s] = host[s]
  <2> SUFFICES ASSUME s \in closed PROVE host'[s] = host[s]
    OBVIOUS
  <2>1. k = 0
    BY <1>4
  <2>2. SubSeq(buffer[s], 1, k) = <<>>
    BY <2>1, SubSeqEmpty
  <2>3. host[s] \o SubSeq(buffer[s], 1, k) = host[s]
    BY <1>1, <2>2, ConcatEmptySeq
  <2> QED BY <1>4, <2>3 DEF StreamsIn
<1>6. /\ closed \subseteq closed' /\ closed' \subseteq closed \cup {s}
      /\ (~ Taken(s, k) => retryable \/ s \in closed')
  BY DEF FlushBuf, Refuses
<1> QED BY <1>1, <1>3, <1>4, <1>5, <1>6 DEF StreamsIn, OnlyStream, Passed

(* A flush passes on what the stream takes and keeps the rest. *)
LEMMA FlushEffect ==
    ASSUME NEW U, StreamsIn(U), NEW s \in Stream, NEW k \in Prefixes(s),
           FlushBuf(s, k, Left(s, k))
    PROVE  /\ StreamsIn(U)' /\ OnlyStream(s) /\ Through(s)' = Through(s)
           /\ closed \subseteq closed' /\ closed' \subseteq closed \cup {s}
           /\ (s \in closed => host'[s] = host[s])
           /\ Len(buffer'[s]) <= Len(buffer[s])
           /\ IF Taken(s, k) THEN buffer'[s] = <<>> /\ (s \in closed => buffer[s] = <<>>)
              ELSE buffer'[s] # <<>> /\ (retryable \/ s \in closed')
<1> DEFINE b == buffer[s]
<1>1. b \in Seq(U) /\ host[s] \in Seq(U) /\ k \in 0 .. Len(b) /\ Len(b) \in Nat
  BY LenProperties DEF StreamsIn, Prefixes
<1>2. /\ SubSeq(b, 1, k) \in Seq(U) /\ Left(s, k) \in Seq(U) /\ Len(Left(s, k)) = Len(b) - k
      /\ SubSeq(b, 1, k) \o Left(s, k) = b
  BY <1>1, Cut DEF Left
<1>3. /\ StreamsIn(U)' /\ OnlyStream(s)
      /\ host'[s] = Passed(s, k) /\ buffer'[s] = Left(s, k)
      /\ (s \in closed => k = 0 /\ host'[s] = host[s])
      /\ closed \subseteq closed' /\ closed' \subseteq closed \cup {s}
      /\ (~ Taken(s, k) => retryable \/ s \in closed')
  BY <1>2, FlushBufEffect
<1>4. Through(s)' = Through(s)
  <2>1. (host[s] \o SubSeq(b, 1, k)) \o Left(s, k) = host[s] \o b
    BY <1>1, Rejoin DEF Left
  <2> QED BY <1>3, <2>1 DEF Through, Passed
<1>5. Len(buffer'[s]) <= Len(buffer[s])
  BY <1>1, <1>2, <1>3
<1>6. CASE Taken(s, k)
  <2>1. Len(Left(s, k)) = 0
    BY <1>1, <1>2, <1>6 DEF Taken
  <2>2. Left(s, k) = <<>>
    BY <1>2, <2>1, EmptySeq
  <2>3. s \in closed => b = <<>>
    BY <1>1, <1>3, <1>6, EmptySeq DEF Taken
  <2> QED BY <1>3, <1>4, <1>5, <1>6, <2>2, <2>3
<1>7. CASE ~ Taken(s, k)
  <2>1. Len(Left(s, k)) # 0
    BY <1>1, <1>2, <1>7 DEF Taken
  <2>2. Left(s, k) # <<>>
    BY <1>2, <2>1, EmptySeq
  <2> QED BY <1>3, <1>4, <1>5, <1>7, <2>2
<1> QED BY <1>6, <1>7

(* A write puts its units behind what is on its way, or drops them as a    *)
(* whole: the latter only when the stream has just refused some that are   *)
(* stuck in the buffer since.                                              *)
LEMMA WriteEffect ==
    ASSUME NEW U, StreamsIn(U), NEW s \in Stream, NEW units \in Seq(U), WriteAll(s, units),
           CAPACITY[s] \in Nat, Len(units) <= CAPACITY[s], Len(buffer[s]) <= CAPACITY[s]
    PROVE  /\ StreamsIn(U)' /\ OnlyStream(s) /\ Len(buffer'[s]) <= CAPACITY[s]
           /\ closed \subseteq closed' /\ closed' \subseteq closed \cup {s}
           /\ (s \in closed => host'[s] = host[s] /\ (buffer[s] # <<>> => buffer'[s] # <<>>))
           /\ \/ Through(s)' = Through(s) \o units
              \/ /\ Through(s)' = Through(s) /\ buffer'[s] # <<>>
                 /\ (retryable \/ s \in closed')
<1>1. /\ buffer[s] \in Seq(U) /\ host[s] \in Seq(U)
      /\ Len(buffer[s]) \in Nat /\ Len(units) \in Nat
  BY LenProperties DEF StreamsIn
<1>2. CASE /\ Len(buffer[s]) + Len(units) <= CAPACITY[s]
           /\ buffer' = [buffer EXCEPT ![s] = @ \o units] /\ UNCHANGED <<host, closed>>
  <2>1. /\ buffer[s] \o units \in Seq(U)
        /\ Len(buffer[s] \o units) = Len(buffer[s]) + Len(units)
    BY <1>1, ConcatProperties
  <2>2. /\ buffer'[s] = buffer[s] \o units
        /\ \A other \in Stream \ {s} : buffer'[other] = buffer[other]
        /\ buffer' \in [Stream -> Seq(U)]
    BY <1>2, <2>1 DEF StreamsIn
  <2>3. buffer[s] # <<>> => buffer'[s] # <<>>
    BY <1>1, <2>1, <2>2, EmptySeq
  <2>4. Through(s)' = Through(s) \o units
    <3> DEFINE h == host[s]
               b == buffer[s]
    <3>1. h \in Seq(U) /\ b \in Seq(U)
      BY <1>1
    <3> HIDE DEF h, b
    <3>2. h \o (b \o units) = (h \o b) \o units
      BY <3>1
    <3> QED BY <1>2, <2>2, <3>2 DEF Through, h, b
  <2> QED BY <1>1, <1>2, <2>1, <2>2, <2>3, <2>4 DEF StreamsIn, OnlyStream
<1>3. ASSUME NEW k \in Prefixes(s), Len(buffer[s]) + Len(units) > CAPACITY[s],
             FlushBuf(s, k, units), Taken(s, k)
      PROVE  /\ StreamsIn(U)' /\ OnlyStream(s) /\ Len(buffer'[s]) <= CAPACITY[s]
             /\ closed \subseteq closed' /\ closed' \subseteq closed \cup {s}
             /\ s \notin closed /\ Through(s)' = Through(s) \o units
  <2>1. /\ StreamsIn(U)' /\ OnlyStream(s)
        /\ host'[s] = Passed(s, k) /\ buffer'[s] = units
        /\ (s \in closed => k = 0)
        /\ closed \subseteq closed' /\ closed' \subseteq closed \cup {s}
    <3>1. FlushBuf(s, k, units)
      BY <1>3
    <3> QED BY <3>1, FlushBufEffect
  <2>2. k = Len(buffer[s]) /\ k # 0
    BY <1>1, <1>3 DEF Taken
  <2>3. SubSeq(buffer[s], 1, k) = buffer[s]
    BY <1>1, <2>2, SubSeqFull
  <2> QED BY <2>1, <2>2, <2>3 DEF Through, Passed
<1>4. ASSUME NEW k \in Prefixes(s), FlushBuf(s, k, Left(s, k)), ~ Taken(s, k)
      PROVE  /\ StreamsIn(U)' /\ OnlyStream(s) /\ Len(buffer'[s]) <= CAPACITY[s]
             /\ closed \subseteq closed' /\ closed' \subseteq closed \cup {s}
             /\ (s \in closed => host'[s] = host[s])
             /\ Through(s)' = Through(s) /\ buffer'[s] # <<>> /\ (retryable \/ s \in closed')
  <2>1. /\ StreamsIn(U)' /\ OnlyStream(s) /\ Through(s)' = Through(s)
        /\ closed \subseteq closed' /\ closed' \subseteq closed \cup {s}
        /\ (s \in closed => host'[s] = host[s])
        /\ Len(buffer'[s]) <= Len(buffer[s])
        /\ buffer'[s] # <<>> /\ (retryable \/ s \in closed')
    BY <1>4, FlushEffect
  <2>2. Len(buffer'[s]) \in Nat
    BY <2>1, LenProperties DEF StreamsIn
  <2> QED BY <1>1, <2>1, <2>2
<1>5. \/ /\ Len(buffer[s]) + Len(units) <= CAPACITY[s]
         /\ buffer' = [buffer EXCEPT ![s] = @ \o units] /\ UNCHANGED <<host, closed>>
      \/ /\ Len(buffer[s]) + Len(units) > CAPACITY[s]
         /\ \E k \in Prefixes(s) : FlushBuf(s, k, units) /\ Taken(s, k)
      \/ \E k \in Prefixes(s) : FlushBuf(s, k, Left(s, k)) /\ ~ Taken(s, k)
  BY DEF WriteAll
<1> QED BY <1>2, <1>3, <1>4, <1>5

(* The drop of a writer passes on what the stream takes, and nothing else. *)
LEMMA DropEffect ==
    ASSUME NEW U, StreamsIn(U), NEW s \in Stream, NEW k \in Prefixes(s), FlushBuf(s, k, <<>>)
    PROVE  /\ StreamsIn(U)' /\ OnlyStream(s)
           /\ host'[s] = Passed(s, k) /\ buffer'[s] = <<>>
           /\ (s \in closed => host'[s] = host[s])
           /\ closed \subseteq closed' /\ closed' \subseteq closed \cup {s}
<1> DEFINE rest == <<>>
<1>1. rest \in Seq(U) /\ FlushBuf(s, k, rest)
  BY EmptySeq
<1> HIDE DEF rest
<1>2. /\ StreamsIn(U)' /\ OnlyStream(s)
      /\ host'[s] = Passed(s, k) /\ buffer'[s] = rest
      /\ (s \in closed => host'[s] = host[s])
      /\ closed \subseteq closed' /\ closed' \subseteq closed \cup {s}
  BY <1>1, FlushBufEffect
<1> QED BY <1>2 DEF rest

(* A message goes to stderr as a whole or not at all. *)
LEMMA EprintlnEffect ==
    ASSUME NEW U, StreamsIn(U), NEW message \in U, Eprintln(message)
    PROVE  /\ StreamsIn(U)' /\ OnlyStream("trace") /\ UNCHANGED buffer
           /\ host'["trace"] \in {host["trace"], Append(host["trace"], message)}
           /\ closed \subseteq closed' /\ closed' \subseteq closed \cup {"trace"}
<1>1. host["trace"] \in Seq(U) /\ "trace" \in Stream
  BY DEF StreamsIn, Stream
<1>2. CASE UNCHANGED closed /\ host' = [host EXCEPT !["trace"] = Append(@, message)]
  <2>1. Append(host["trace"], message) \in Seq(U)
    BY <1>1, AppendProperties
  <2>2. /\ host'["trace"] = Append(host["trace"], message)
        /\ \A other \in Stream \ {"trace"} : host'[other] = host[other]
        /\ host' \in [Stream -> Seq(U)]
    BY <1>1, <1>2, <2>1 DEF StreamsIn
  <2> QED BY <1>2, <2>2 DEF Eprintln, StreamsIn, OnlyStream
<1>3. CASE Refuses("trace") /\ UNCHANGED host
  BY <1>3 DEF Eprintln, Refuses, StreamsIn, OnlyStream
<1> QED BY <1>2, <1>3 DEF Eprintln

-----------------------------------------------------------------------------
(* What a step of the run does to the streams: nothing, or one write. *)
WritesByte ==
    /\ WriteAll("uart", uart.tx) /\ sent' = sent \o uart.tx /\ steps' = steps
    /\ uart.tx \in Seq(Byte) /\ Len(uart.tx) = 1 /\ delivered' = delivered + Len(uart.tx)

WritesLine ==
    WriteAll("trace", Line(StepEvent)) /\ UNCHANGED <<sent, delivered>> /\ steps' = steps + 1

WritesNothing ==
    /\ UNCHANGED <<buffer, host, closed, sent, delivered>>
    /\ steps' >= steps /\ (args = "run_trace" => steps' = steps)

LEMMA RunFirmwareEffect ==
    ASSUME CliInv, RunFirmware
    PROVE  /\ stage = "run" /\ stage' \in {"run", "flush"} /\ UNCHANGED <<args, retryable, exit>>
           /\ WritesNothing \/ WritesByte \/ WritesLine
<1>0. /\ stage = "run" /\ stage' \in {"run", "flush"} /\ UNCHANGED <<args, retryable, exit>>
  BY DEF RunFirmware, given
<1>1. \/ log' = log /\ UNCHANGED <<buffer, host, closed, sent>>
      \/ log' # log /\ Observe(log'[Len(log')])
  BY DEF RunFirmware
<1>2. steps \in Nat /\ LogInv /\ MachineInv
  BY DEF CliInv, MachineInv, MachineTypeOK, CpuTypeOK
<1>3. CASE LoopEnds
  BY <1>0, <1>1, <1>2, <1>3 DEF LoopEnds, HaltWith, cpuVars, WritesNothing
<1>4. CASE RunStep
  <2>1. CASE steps' = steps + 1 /\ log' = Append(log, StepEvent)
    <3>1. log'[Len(log')] = StepEvent
      BY <1>2, <2>1, AppendLog DEF LogInv
    <3>2. StepEvent.call = "on_step"
      BY DEF StepEvent
    <3>3. UNCHANGED delivered /\ log' # log
      BY <1>2, <1>4, <2>1, AppendLog DEF LogInv, RunStep
    <3>4. Observe(StepEvent) => WritesLine \/ WritesNothing
      BY <1>2, <2>1, <3>2, <3>3 DEF Observe, WritesLine, WritesNothing
    <3> QED BY <1>0, <1>1, <3>1, <3>3, <3>4
  <2>2. CASE steps' = steps /\ UNCHANGED log
    BY <1>0, <1>1, <1>2, <1>4, <2>2 DEF RunStep, WritesNothing
  <2> QED BY <1>2, <1>4, <2>1, <2>2, RunStepEffect
<1>5. CASE DrainAfterStep \/ FinishRun
  <2>1. Drain /\ control \in {"drain", "final"} /\ steps' = steps
    BY <1>5 DEF DrainAfterStep, FinishRun, cpuVars
  <2>2. CASE uart.tx = <<>>
    <3>1. UNCHANGED <<log, delivered>>
      BY <2>1, <2>2 DEF Drain
    <3> QED BY <1>0, <1>1, <1>2, <2>1, <3>1 DEF WritesNothing
  <2>3. CASE uart.tx # <<>>
    <3>1. log' = Append(log, UartEvent(uart.tx)) /\ delivered' = delivered + Len(uart.tx)
      BY <1>2, <2>1, <2>3, DrainEffect
    <3>2. log'[Len(log')] = UartEvent(uart.tx) /\ log' # log
      BY <1>2, <3>1, AppendLog DEF LogInv
    <3>3. uart.tx \in Seq(Byte) /\ Len(uart.tx) = 1
      <4>1. uart.tx \in Seq(Byte) /\ Len(uart.tx) \in Nat \ {0}
        BY <1>2, <2>3, LenType, EmptySeq
      <4>2. Len(uart.tx) \in 0 .. 1
        BY <2>1, <4>1 DEF CliInv, OutputInv, StageInv
      <4> QED BY <4>1, <4>2
    <3>4. UartEvent(uart.tx).call = "on_uart_tx" /\ UartEvent(uart.tx).bytes = uart.tx
      BY DEF UartEvent
    <3>5. Observe(UartEvent(uart.tx)) => WritesByte
      BY <2>1, <3>1, <3>3, <3>4 DEF Observe, WritesByte
    <3> QED BY <1>0, <1>1, <1>2, <2>1, <3>2, <3>5
  <2> QED BY <2>2, <2>3
<1> QED BY <1>3, <1>4, <1>5 DEF RunFirmware, Running

-----------------------------------------------------------------------------
(* The streams hold sequences, and no buffer more than its capacity. *)
StreamInv ==
    /\ \E U : StreamsIn(U) /\ sent \in Seq(U)
    /\ \A s \in Stream : Len(buffer[s]) <= CAPACITY[s]

Units == Byte \cup {Line(StepEvent)[1], Newline}
         \cup {Message(about) : about \in {"summary", "fault", "error"}}

LEMMA Widen ==
    ASSUME NEW U, NEW V, StreamsIn(U), sent \in Seq(U)
    PROVE  StreamsIn(U \cup V) /\ sent \in Seq(U \cup V)
<1>1. Seq(U) \subseteq Seq(U \cup V)
  BY SeqMonotonic
<1> QED BY <1>1 DEF StreamsIn

LEMMA RoomForUnits ==
    ASSUME StreamInv
    PROVE  \E U : StreamsIn(U) /\ sent \in Seq(U) /\ Units \subseteq U
<1>1. PICK W : StreamsIn(W) /\ sent \in Seq(W)
  BY DEF StreamInv
<1>2. StreamsIn(W \cup Units) /\ sent \in Seq(W \cup Units)
  BY <1>1, Widen
<1> QED BY <1>2

LEMMA Capacity == CAPACITY \in [Stream -> Nat] /\ CAPACITY["uart"] > 1 /\ CAPACITY["trace"] > 2
BY CliAssumption

LEMMA LineIsTwoUnits == Line(StepEvent) \in Seq(Units) /\ Len(Line(StepEvent)) = 2
BY DEF Line, Units

LEMMA OthersKeep ==
    ASSUME NEW s \in Stream, OnlyStream(s), Len(buffer'[s]) <= CAPACITY[s],
           \A r \in Stream : Len(buffer[r]) <= CAPACITY[r]
    PROVE  \A r \in Stream : Len(buffer'[r]) <= CAPACITY[r]
BY DEF OnlyStream
(* Steps that have nothing to do with the streams. *)
Elsewhere == \/ Parse \/ Stat \/ FileChanges \/ ReadFails \/ ReadImage \/ Loading \/ Loaded
             \/ UNCHANGED vars

LEMMA ElsewhereKeepsStreams ==
    ASSUME Elsewhere
    PROVE  UNCHANGED <<buffer, host, closed, sent, retryable>>
BY DEF Elsewhere, Parse, Stat, FileChanges, ReadFails, ReadImage, Loading, Loaded, vars, cliVars,
       given

LEMMA StreamStep ==
    ASSUME CliInv, StreamInv, [CliNext]_vars
    PROVE  StreamInv'
<1>0. PICK U : StreamsIn(U) /\ sent \in Seq(U) /\ Units \subseteq U
  BY RoomForUnits
<1>1. StreamsIn(U) /\ sent \in Seq(U)
  BY <1>0
<1>2. Units \subseteq U
  BY <1>0
<1>3. "uart" \in Stream /\ "trace" \in Stream
      /\ \A s \in Stream : CAPACITY[s] \in Nat /\ Len(buffer[s]) <= CAPACITY[s]
  BY Capacity DEF Stream, StreamInv
<1>4. CASE Elsewhere
  BY <1>4, ElsewhereKeepsStreams DEF StreamInv, StreamsIn
<1>5. CASE RunFirmware
  <2>1. CASE WritesNothing
    BY <2>1 DEF StreamInv, StreamsIn, WritesNothing
  <2>2. CASE WritesByte
    <3>1. uart.tx \in Seq(U) /\ Len(uart.tx) <= CAPACITY["uart"]
      <4>1. uart.tx \in Seq(Byte) /\ Len(uart.tx) = 1 /\ Byte \subseteq U
        BY <2>2, <1>2 DEF WritesByte, Units
      <4> QED BY <4>1, <1>3, Capacity, SeqMonotonic
    <3>2. sent' \in Seq(U)
      BY <1>1, <2>2, <3>1, ConcatProperties DEF WritesByte
    <3>3. StreamsIn(U)' /\ OnlyStream("uart") /\ Len(buffer'["uart"]) <= CAPACITY["uart"]
      BY <1>1, <1>3, <2>2, <3>1, WriteEffect DEF WritesByte
    <3> QED BY <1>3, <3>2, <3>3, OthersKeep DEF StreamInv
  <2>3. CASE WritesLine
    <3>1. Line(StepEvent) \in Seq(U) /\ Len(Line(StepEvent)) <= CAPACITY["trace"]
      <4>1. Line(StepEvent) \in Seq(Units) /\ Len(Line(StepEvent)) = 2
        BY LineIsTwoUnits
      <4> QED BY <4>1, <1>2, <1>3, Capacity, SeqMonotonic
    <3>2. sent' \in Seq(U)
      BY <1>1, <2>3 DEF WritesLine
    <3>3. StreamsIn(U)' /\ OnlyStream("trace") /\ Len(buffer'["trace"]) <= CAPACITY["trace"]
      BY <1>1, <1>3, <2>3, <3>1, WriteEffect DEF WritesLine
    <3> QED BY <1>3, <3>2, <3>3, OthersKeep DEF StreamInv
  <2> QED BY <1>5, <2>1, <2>2, <2>3, RunFirmwareEffect
<1>6. CASE Flush
  <2>0. PICK s \in Stream : \E k \in Prefixes(s) : FlushBuf(s, k, Left(s, k))
    BY <1>3, <1>6 DEF Flush, FlushOrLeave
  <2>1. PICK k \in Prefixes(s) : FlushBuf(s, k, Left(s, k))
    BY <2>0
  <2>2. StreamsIn(U)' /\ OnlyStream(s) /\ Len(buffer'[s]) <= Len(buffer[s])
    BY <1>1, <2>1, FlushEffect
  <2>3. Len(buffer'[s]) \in Nat /\ Len(buffer[s]) \in Nat
    BY <1>1, <2>2, LenProperties DEF StreamsIn
  <2>4. Len(buffer'[s]) <= CAPACITY[s]
    BY <1>3, <2>2, <2>3
  <2>5. sent' \in Seq(U)
    BY <1>1, <1>6 DEF Flush, FlushOrLeave
  <2> QED BY <1>3, <2>2, <2>4, <2>5, OthersKeep DEF StreamInv
<1>7. CASE DropSink
  <2>0. PICK s \in Stream : \E k \in Prefixes(s) : FlushBuf(s, k, <<>>)
    BY <1>3, <1>7 DEF DropSink, DropWriter
  <2>1. PICK k \in Prefixes(s) : FlushBuf(s, k, <<>>)
    BY <2>0
  <2>2. StreamsIn(U)' /\ OnlyStream(s) /\ buffer'[s] = <<>>
    BY <1>1, <2>1, DropEffect
  <2>3. Len(buffer'[s]) <= CAPACITY[s]
    BY <1>3, <2>2
  <2>4. sent' \in Seq(U)
    BY <1>1, <1>7 DEF DropSink, DropWriter
  <2> QED BY <1>3, <2>2, <2>3, <2>4, OthersKeep DEF StreamInv
<1>8. CASE Report \/ ReportFault \/ Complain
  <2>1. PICK about \in {"summary", "fault", "error"} : Eprintln(Message(about))
    BY <1>8 DEF Report, ReportFault, Complain
  <2>2. Message(about) \in U
    BY <1>2 DEF Units
  <2>3. StreamsIn(U)' /\ UNCHANGED buffer
    BY <1>1, <2>1, <2>2, EprintlnEffect
  <2>4. sent' \in Seq(U)
    BY <1>1, <1>8 DEF Report, ReportFault, Complain
  <2> QED BY <1>3, <2>3, <2>4 DEF StreamInv
<1> QED BY <1>4, <1>5, <1>6, <1>7, <1>8 DEF CliNext, Process, Elsewhere

LEMMA StreamInitial == CliInit => StreamInv
<1> SUFFICES ASSUME CliInit PROVE StreamInv
  OBVIOUS
<1>1. <<>> \in Seq({}) /\ Len(<<>>) = 0
  BY EmptySeq
<1>2. StreamsIn({}) /\ sent \in Seq({})
  BY <1>1 DEF CliInit, StreamsIn
<1>3. \A s \in Stream : Len(buffer[s]) <= CAPACITY[s]
  BY <1>1, Capacity DEF CliInit
<1> QED BY <1>2, <1>3 DEF StreamInv

LEMMA StreamInductive == CliSpec => []StreamInv
BY StreamInitial, StreamStep, CliInductive, PTL DEF CliSpec

(* Whatever fails, the process stays well typed and no buffer grows past   *)
(* its capacity.                                                           *)
THEOREM CliTyping == CliSpec => []CliTypeOK
<1>1. CliInv /\ StreamInv => CliTypeOK
  BY DEF CliInv, StageInv, StreamInv, CliTypeOK
<1> QED BY <1>1, CliInductive, StreamInductive, PTL

-----------------------------------------------------------------------------
(* Unless a stream may refuse a write and take a later one: every byte is  *)
(* on its way or has come out, until stdout is closed; from then on some   *)
(* bytes are stuck in its buffer, so that the flush cannot succeed.        *)
Kept ==
    \/ Through("uart") = sent
    \/ "uart" \in closed /\ buffer["uart"] # <<>> /\ S!IsPrefix(host["uart"], sent)

Passing == BeforeLoad \cup {"load", "run", "flush", "drop_uart"}
Flushed == {"flush_trace", "report", "report_fault"}

OutInv ==
    ~ retryable =>
    /\ S!IsPrefix(host["uart"], sent)
    /\ stage \in Passing => Kept
    /\ stage \in Flushed => host["uart"] = sent /\ buffer["uart"] = <<>>
    /\ stage = "exit" /\ runs = 1 /\ exit \in {OK, BUDGET, FAULT} => host["uart"] = sent

LEMMA PassedIsPrefix ==
    ASSUME NEW U, StreamsIn(U), Through("uart") = sent, NEW k \in Prefixes("uart")
    PROVE  S!IsPrefix(Passed("uart", k), sent)
<1>1. host["uart"] \in Seq(U) /\ buffer["uart"] \in Seq(U) /\ k \in 0 .. Len(buffer["uart"])
  BY DEF StreamsIn, Stream, Prefixes
<1>2. S!IsPrefix(Passed("uart", k), Through("uart"))
  BY <1>1, PrefixOfConcat DEF Passed, Through
<1> QED BY <1>2

LEMMA KeptIsPrefix ==
    ASSUME NEW U, StreamsIn(U), Kept
    PROVE  S!IsPrefix(host["uart"], sent)
<1>1. CASE Through("uart") = sent
  <2>1. host["uart"] \in Seq(U) /\ buffer["uart"] \in Seq(U)
    BY DEF StreamsIn, Stream
  <2>2. S!IsPrefix(host["uart"], Through("uart"))
    BY <2>1, PrefixOfWhole DEF Through
  <2> QED BY <1>1, <2>2
<1> QED BY <1>1 DEF Kept

LEMMA KeptByWrite ==
    ASSUME NEW U, StreamsIn(U), sent \in Seq(U), Len(buffer["uart"]) <= CAPACITY["uart"],
           ~ retryable, Kept, WritesByte, Byte \subseteq U
    PROVE  Kept'
<1>1. /\ uart.tx \in Seq(U) /\ Len(uart.tx) = 1 /\ WriteAll("uart", uart.tx)
      /\ sent' = sent \o uart.tx
  BY SeqMonotonic DEF WritesByte
<1>2. CAPACITY["uart"] \in Nat /\ Len(uart.tx) <= CAPACITY["uart"] /\ "uart" \in Stream
  BY <1>1, Capacity DEF Stream
<1>3. /\ StreamsIn(U)' /\ "uart" \in Stream /\ closed \subseteq closed'
      /\ ("uart" \in closed => /\ host'["uart"] = host["uart"]
                               /\ (buffer["uart"] # <<>> => buffer'["uart"] # <<>>))
      /\ \/ Through("uart")' = Through("uart") \o uart.tx
         \/ /\ Through("uart")' = Through("uart") /\ buffer'["uart"] # <<>>
            /\ "uart" \in closed'
  BY <1>1, <1>2, WriteEffect
<1>4. CASE Through("uart") = sent /\ Through("uart")' = Through("uart") \o uart.tx
  BY <1>1, <1>4 DEF Kept
<1>5. CASE /\ Through("uart") = sent
           /\ Through("uart")' = Through("uart") /\ buffer'["uart"] # <<>> /\ "uart" \in closed'
  <2>1. S!IsPrefix(host'["uart"], sent)
    <3> DEFINE h == host'["uart"]
               b == buffer'["uart"]
    <3>1. h \in Seq(U) /\ b \in Seq(U) /\ h \o b = sent
      BY <1>3, <1>5 DEF StreamsIn, Through
    <3> HIDE DEF h, b
    <3>2. S!IsPrefix(h, h \o b)
      BY <3>1, PrefixOfWhole
    <3> QED BY <3>1, <3>2 DEF h
  <2>2. S!IsPrefix(host'["uart"], sent \o uart.tx)
    BY <1>1, <1>3, <2>1, PrefixExtends DEF StreamsIn
  <2> QED BY <1>1, <1>5, <2>2 DEF Kept
<1>6. CASE "uart" \in closed /\ buffer["uart"] # <<>> /\ S!IsPrefix(host["uart"], sent)
  <2>1. S!IsPrefix(host["uart"], sent \o uart.tx)
    BY <1>1, <1>3, <1>6, PrefixExtends DEF StreamsIn
  <2> QED BY <1>1, <1>3, <1>6, <2>1 DEF Kept
<1> QED BY <1>3, <1>4, <1>5, <1>6 DEF Kept

LEMMA KeptByFlush ==
    ASSUME NEW U, StreamsIn(U), ~ retryable, Kept, NEW k \in Prefixes("uart"),
           FlushBuf("uart", k, Left("uart", k)), UNCHANGED sent
    PROVE  IF Taken("uart", k) THEN host'["uart"] = sent' /\ buffer'["uart"] = <<>> ELSE Kept'
<1>1. /\ StreamsIn(U)' /\ Through("uart")' = Through("uart") /\ closed \subseteq closed'
      /\ ("uart" \in closed => host'["uart"] = host["uart"])
      /\ IF Taken("uart", k)
         THEN buffer'["uart"] = <<>> /\ ("uart" \in closed => buffer["uart"] = <<>>)
         ELSE buffer'["uart"] # <<>> /\ "uart" \in closed'
  BY FlushEffect DEF Stream
<1>2. CASE Taken("uart", k)
  <2>1. Through("uart") = sent
    BY <1>1, <1>2 DEF Kept
  <2>2. host'["uart"] \o <<>> = host'["uart"]
    BY <1>1, ConcatEmptySeq DEF StreamsIn, Stream
  <2>3. Through("uart")' = host'["uart"]
    BY <1>1, <1>2, <2>2 DEF Through
  <2> QED BY <1>1, <1>2, <2>1, <2>3
<1>3. CASE ~ Taken("uart", k)
  BY <1>1, <1>3 DEF Kept
<1> QED BY <1>2, <1>3

LEMMA OutStep ==
    ASSUME CliInv, StreamInv, StreamInv', OutInv, [CliNext]_vars
    PROVE  OutInv'
<1>0. PICK U : StreamsIn(U) /\ sent \in Seq(U) /\ Units \subseteq U
  BY RoomForUnits
<1>1. PICK V : StreamsIn(V)'
  BY DEF StreamInv
<1>2. Kept' => S!IsPrefix(host["uart"], sent)'
  <2> SUFFICES ASSUME Kept' PROVE S!IsPrefix(host["uart"], sent)'
    OBVIOUS
  <2>1. CASE Through("uart")' = sent'
    <3>1. host'["uart"] \in Seq(V) /\ buffer'["uart"] \in Seq(V)
      BY <1>1 DEF StreamsIn, Stream
    <3> DEFINE h == host'["uart"]
               b == buffer'["uart"]
    <3> HIDE DEF h, b
    <3>2. S!IsPrefix(h, h \o b)
      BY <3>1, PrefixOfWhole DEF h, b
    <3> QED BY <2>1, <3>2 DEF Through, h, b
  <2> QED BY <2>1 DEF Kept
<1> SUFFICES ASSUME ~ retryable' PROVE
       /\ S!IsPrefix(host["uart"], sent)'
       /\ stage' \in Passing => Kept'
       /\ stage' \in Flushed => host'["uart"] = sent' /\ buffer'["uart"] = <<>>
       /\ stage' = "exit" /\ runs' = 1 /\ exit' \in {OK, BUDGET, FAULT} => host'["uart"] = sent'
  BY DEF OutInv
<1>3. ~ retryable /\ UNCHANGED retryable
  BY DEF CliNext, Process, Parse, Stat, FileChanges, ReadFails, ReadImage, Loading, Loaded,
     RunFirmware, Flush, FlushOrLeave, DropSink, DropWriter, Report, ReportFault, Complain, given,
     cliVars, vars
<1>4. /\ S!IsPrefix(host["uart"], sent)
      /\ stage \in Passing => Kept
      /\ stage \in Flushed => host["uart"] = sent /\ buffer["uart"] = <<>>
      /\ stage = "exit" /\ runs = 1 /\ exit \in {OK, BUDGET, FAULT} => host["uart"] = sent
  BY <1>3 DEF OutInv
<1>5. ASSUME UNCHANGED <<sent, closed>> \/ (UNCHANGED sent /\ closed \subseteq closed'),
             host'["uart"] = host["uart"], buffer'["uart"] = buffer["uart"]
      PROVE  /\ S!IsPrefix(host["uart"], sent)' /\ (Kept => Kept')
  BY <1>4, <1>5 DEF Kept, Through
<1>6. CASE Elsewhere
  <2>1. UNCHANGED <<buffer, host, closed, sent>>
    BY <1>6, ElsewhereKeepsStreams
  <2>2. S!IsPrefix(host["uart"], sent)' /\ (Kept => Kept')
    BY <1>5, <2>1
  <2>3. CASE UNCHANGED vars
    BY <1>4, <2>1, <2>2, <2>3 DEF vars, cliVars, machineVars, runVars
  <2>4. CASE Loading
    BY <1>4, <2>1, <2>2, <2>4 DEF Loading, cliVars, Passing, Flushed
  <2>5. CASE Stat \/ FileChanges \/ ReadFails \/ ReadImage \/ Loaded
    BY <1>4, <2>1, <2>2, <2>5
       DEF Stat, FileChanges, ReadFails, ReadImage, Loaded, Passing, Flushed, BeforeLoad
  <2>6. CASE Parse
    <3>1. runs = 0 /\ runs' = runs /\ stage' \in {"exit", "stat"}
      BY <2>6 DEF Parse, Exit, machineVars, runVars, CliInv, StageInv, BeforeLoad
    <3> QED BY <1>4, <2>2, <2>6, <3>1 DEF Parse, Passing, Flushed, BeforeLoad
  <2> QED BY <1>6, <2>3, <2>4, <2>5, <2>6 DEF Elsewhere
<1>7. CASE RunFirmware
  <2>1. stage = "run" /\ stage' \in {"run", "flush"}
    BY <1>7, RunFirmwareEffect
  <2>2. Kept
    BY <1>4, <2>1 DEF Passing
  <2>3. CASE WritesNothing
    BY <1>5, <2>1, <2>2, <2>3 DEF Flushed, WritesNothing
  <2>4. CASE WritesByte
    <3>1. Byte \subseteq U /\ Len(buffer["uart"]) <= CAPACITY["uart"]
      BY <1>0 DEF Units, StreamInv, Stream
    <3>2. Kept'
      BY <1>0, <1>3, <2>2, <2>4, <3>1, KeptByWrite
    <3> QED BY <1>2, <2>1, <3>2 DEF Flushed
  <2>5. CASE WritesLine
    <3>1. Line(StepEvent) \in Seq(U) /\ Len(Line(StepEvent)) <= CAPACITY["trace"]
          /\ CAPACITY["trace"] \in Nat /\ Len(buffer["trace"]) <= CAPACITY["trace"]
          /\ "trace" \in Stream
      BY <1>0, LineIsTwoUnits, SeqMonotonic, Capacity DEF Stream, StreamInv
    <3>2. OnlyStream("trace") /\ closed \subseteq closed'
      BY <1>0, <2>5, <3>1, WriteEffect DEF WritesLine
    <3>3. host'["uart"] = host["uart"] /\ buffer'["uart"] = buffer["uart"] /\ UNCHANGED sent
      BY <2>5, <3>2 DEF OnlyStream, Stream, WritesLine
    <3> QED BY <1>5, <2>1, <2>2, <3>2, <3>3 DEF Flushed
  <2> QED BY <1>7, <2>3, <2>4, <2>5, RunFirmwareEffect
<1>8. CASE FlushOrLeave("uart", "flush", "flush_trace")
  <2>1. PICK k \in Prefixes("uart") :
            /\ FlushBuf("uart", k, Left("uart", k)) /\ stage = "flush" /\ UNCHANGED sent
            /\ stage' = IF Taken("uart", k) THEN "flush_trace" ELSE "drop_uart"
    BY <1>8 DEF FlushOrLeave
  <2>2. Kept
    BY <1>4, <2>1 DEF Passing
  <2>3. IF Taken("uart", k) THEN host'["uart"] = sent' /\ buffer'["uart"] = <<>> ELSE Kept'
    BY <1>0, <1>3, <2>1, <2>2, KeptByFlush
  <2>4. host'["uart"] = sent' => S!IsPrefix(host["uart"], sent)'
    <3>1. host'["uart"] \in Seq(V)
      BY <1>1 DEF StreamsIn, Stream
    <3> QED BY <3>1, PrefixPointwise, LenProperties
  <2> QED BY <1>2, <2>1, <2>3, <2>4 DEF Passing, Flushed, BeforeLoad
<1>9. CASE FlushOrLeave("trace", "flush_trace", "report")
  <2>1. PICK k \in Prefixes("trace") :
            /\ FlushBuf("trace", k, Left("trace", k)) /\ stage = "flush_trace" /\ UNCHANGED sent
            /\ stage' \in {"report", "drop_uart"}
    BY <1>9 DEF FlushOrLeave
  <2>2. OnlyStream("trace") /\ closed \subseteq closed'
    BY <1>0, <2>1, FlushEffect DEF Stream
  <2>3. host'["uart"] = host["uart"] /\ buffer'["uart"] = buffer["uart"]
    BY <2>2 DEF OnlyStream, Stream
  <2>4. host["uart"] = sent /\ buffer["uart"] = <<>>
    BY <1>4, <2>1 DEF Flushed
  <2>5. Kept
    BY <1>0, <2>4, ConcatEmptySeq DEF Kept, Through, StreamsIn, Stream
  <2> QED BY <1>5, <2>1, <2>2, <2>3, <2>4, <2>5 DEF Flushed
<1>10. CASE DropWriter("uart", "drop_uart", "drop_trace")
  <2>1. PICK k \in Prefixes("uart") :
            /\ FlushBuf("uart", k, <<>>) /\ stage = "drop_uart" /\ UNCHANGED sent
            /\ stage' = "drop_trace"
    BY <1>10 DEF DropWriter
  <2>2. host'["uart"] = Passed("uart", k) /\ ("uart" \in closed => host'["uart"] = host["uart"])
    BY <1>0, <2>1, DropEffect DEF Stream
  <2>3. Kept
    BY <1>4, <2>1 DEF Passing
  <2>4. Through("uart") = sent => S!IsPrefix(Passed("uart", k), sent)
    BY <1>0, <2>1, PassedIsPrefix
  <2>5. S!IsPrefix(host["uart"], sent)'
    BY <1>4, <2>1, <2>2, <2>3, <2>4 DEF Kept
  <2> QED BY <2>1, <2>5 DEF Passing, Flushed, BeforeLoad
<1>11. CASE DropWriter("trace", "drop_trace", "complain")
  <2>1. PICK k \in Prefixes("trace") :
            /\ FlushBuf("trace", k, <<>>) /\ UNCHANGED sent /\ stage' = "complain"
    BY <1>11 DEF DropWriter
  <2>2. OnlyStream("trace") /\ closed \subseteq closed'
    BY <1>0, <2>1, DropEffect DEF Stream
  <2>3. host'["uart"] = host["uart"] /\ buffer'["uart"] = buffer["uart"]
    BY <2>2 DEF OnlyStream, Stream
  <2> QED BY <1>5, <2>1, <2>2, <2>3 DEF Passing, Flushed, BeforeLoad
<1>12. CASE Report \/ ReportFault \/ Complain
  <2>1. PICK about \in {"summary", "fault", "error"} : Eprintln(Message(about))
    BY <1>12 DEF Report, ReportFault, Complain
  <2>2. Message(about) \in U
    BY <1>0 DEF Units
  <2>3. OnlyStream("trace") /\ closed \subseteq closed'
    BY <1>0, <2>1, <2>2, EprintlnEffect
  <2>4. host'["uart"] = host["uart"] /\ buffer'["uart"] = buffer["uart"] /\ UNCHANGED sent
    BY <1>12, <2>3 DEF OnlyStream, Stream, Report, ReportFault, Complain
  <2>5. S!IsPrefix(host["uart"], sent)'
    BY <1>5, <2>3, <2>4
  <2>6. CASE Report \/ ReportFault
    <3>1. stage \in Flushed /\ stage' \in {"exit", "report_fault"}
      BY <2>6 DEF Report, ReportFault, Exit, Flushed
    <3> QED BY <1>4, <2>4, <2>5, <3>1 DEF Passing, BeforeLoad
  <2>7. CASE Complain
    <3>1. stage' = "exit" /\ exit' \in {USAGE, Panic}
      BY <2>7 DEF Complain, Exit
    <3> QED BY <2>5, <3>1 DEF Passing, Flushed, BeforeLoad, USAGE, Panic, OK, BUDGET, FAULT
  <2> QED BY <1>12, <2>6, <2>7
<1> QED BY <1>6, <1>7, <1>8, <1>9, <1>10, <1>11, <1>12
        DEF CliNext, Process, Elsewhere, Flush, DropSink

LEMMA OutInductive == CliSpec => []OutInv
<1>1. CliInit => OutInv
  <2> SUFFICES ASSUME CliInit PROVE OutInv
    OBVIOUS
  <2>1. <<>> \in Seq({}) /\ <<>> \o <<>> = <<>>
    BY EmptySeq, ConcatEmptySeq
  <2>2. /\ host["uart"] = <<>> /\ buffer["uart"] = <<>> /\ sent = <<>> /\ stage = "parse"
    BY DEF CliInit, Stream
  <2>3. S!IsPrefix(host["uart"], sent)
    <3> DEFINE none == <<>>
    <3>1. none \in Seq({}) /\ none \o none = none
      BY <2>1
    <3> HIDE DEF none
    <3>2. S!IsPrefix(none, none \o none)
      BY <3>1, PrefixOfWhole
    <3> QED BY <2>2, <3>1, <3>2 DEF none
  <2> QED BY <2>1, <2>2, <2>3 DEF OutInv, Kept, Through, Flushed
<1> QED BY <1>1, OutStep, CliInductive, StreamInductive, PTL DEF CliSpec

(* What comes out of a stdout that is never just busy is a beginning of    *)
(* what the firmware has sent, and all of it when the exit code is one of  *)
(* the firmware's.                                                         *)
THEOREM OutputIsExact == CliSpec => []OutputIsExactUnlessReported
<1>1. CliInv /\ OutInv => OutputIsExactUnlessReported
  BY DEF CliInv, StageInv, OutInv, OutputIsExactUnlessReported, RunEnded
<1> QED BY <1>1, CliInductive, OutInductive, PTL

-----------------------------------------------------------------------------
(* The lines among the units of stderr: those that are not a message. *)
LinesIn(units) == {k \in DOMAIN units : "about" \notin DOMAIN units[k]}

WholeLines(units) ==
    /\ \A k \in LinesIn(units) :
          1 .. k \subseteq LinesIn(units) /\ (units[k].object <=> k % 2 = 1)
    /\ \A j, k \in LinesIn(units) :
          j < k /\ units[j].object /\ units[k].object => units[j].step < units[k].step

LinesUpTo(units, n) ==
    /\ Len(units) % 2 = 0
    /\ \A k \in DOMAIN units : units[k].object => units[k].step \in Nat /\ units[k].step <= n

LEMMA LinesOfPrefix ==
    ASSUME NEW U, NEW s \in Seq(U), NEW t \in Seq(U), S!IsPrefix(s, t)
    PROVE  /\ WholeLines(t) => WholeLines(s)
           /\ LinesIn(t) = DOMAIN t => LinesIn(s) = DOMAIN s
<1>1. /\ Len(s) \in Nat /\ Len(t) \in Nat /\ Len(s) <= Len(t)
      /\ DOMAIN s = 1 .. Len(s) /\ DOMAIN t = 1 .. Len(t)
      /\ \A k \in 1 .. Len(s) : s[k] = t[k]
  BY PrefixPointwise, LenProperties
<1>2. \A k \in DOMAIN s : k \in LinesIn(s) <=> k \in LinesIn(t)
  BY <1>1 DEF LinesIn
<1>3. LinesIn(s) \subseteq DOMAIN s /\ LinesIn(t) \subseteq DOMAIN t
  BY DEF LinesIn
<1>4. ASSUME WholeLines(t) PROVE WholeLines(s)
  <2>1. ASSUME NEW k \in LinesIn(s)
        PROVE  1 .. k \subseteq LinesIn(s) /\ (s[k].object <=> k % 2 = 1)
    <3>1. k \in LinesIn(t) /\ k \in 1 .. Len(s)
      BY <1>1, <1>2, <1>3
    <3>2. 1 .. k \subseteq LinesIn(t) /\ (t[k].object <=> k % 2 = 1)
      BY <1>4, <3>1 DEF WholeLines
    <3>3. 1 .. k \subseteq LinesIn(s)
      BY <1>1, <1>2, <3>1, <3>2
    <3>4. s[k] = t[k]
      BY <1>1, <3>1
    <3> QED BY <3>2, <3>3, <3>4
  <2>2. ASSUME NEW j \in LinesIn(s), NEW k \in LinesIn(s), j < k, s[j].object, s[k].object
        PROVE  s[j].step < s[k].step
    <3>1. j \in LinesIn(t) /\ k \in LinesIn(t) /\ s[j] = t[j] /\ s[k] = t[k]
      BY <1>1, <1>2, <1>3
    <3> QED BY <1>4, <2>2, <3>1 DEF WholeLines
  <2> QED BY <2>1, <2>2 DEF WholeLines
<1>5. ASSUME LinesIn(t) = DOMAIN t PROVE LinesIn(s) = DOMAIN s
  <2>1. \A k \in DOMAIN s : k \in DOMAIN t
    BY <1>1
  <2>2. \A k \in DOMAIN s : k \in LinesIn(s)
    BY <1>2, <1>5, <2>1
  <2> QED BY <1>3, <2>2
<1> QED BY <1>4, <1>5

LEMMA LinesThenMessage ==
    ASSUME NEW U, NEW s \in Seq(U), NEW message \in U, "about" \in DOMAIN message, WholeLines(s)
    PROVE  WholeLines(Append(s, message))
<1> DEFINE t == Append(s, message)
<1>1. /\ Len(s) \in Nat /\ DOMAIN s = 1 .. Len(s) /\ DOMAIN t = 1 .. Len(s) + 1
      /\ t[Len(s) + 1] = message /\ \A k \in 1 .. Len(s) : t[k] = s[k]
  <2>1. /\ t \in Seq(U) /\ Len(t) = Len(s) + 1
        /\ \A k \in 1 .. Len(s) : t[k] = s[k]
        /\ t[Len(s) + 1] = message
    BY AppendProperties
  <2> QED BY <2>1, LenProperties
<1> HIDE DEF t
<1>2. LinesIn(t) = LinesIn(s)
  BY <1>1 DEF LinesIn
<1>3. \A k \in LinesIn(s) : t[k] = s[k]
  BY <1>1 DEF LinesIn
<1>4. WholeLines(t)
  BY <1>2, <1>3 DEF WholeLines
<1> QED BY <1>4 DEF t

(* One more line behind whole lines, numbered past all of them. *)
LEMMA LinesThenLine ==
    ASSUME NEW U, NEW s \in Seq(U), NEW first \in U, NEW second \in U, NEW n \in Nat,
           WholeLines(s), LinesIn(s) = DOMAIN s, LinesUpTo(s, n),
           "about" \notin DOMAIN first, "about" \notin DOMAIN second,
           first.object, first.step = n + 1, ~ second.object
    PROVE  /\ WholeLines(s \o <<first, second>>) /\ LinesUpTo(s \o <<first, second>>, n + 1)
           /\ LinesIn(s \o <<first, second>>) = DOMAIN (s \o <<first, second>>)
<1>0. /\ Len(s) % 2 = 0
      /\ \A k \in DOMAIN s : s[k].object => s[k].step \in Nat /\ s[k].step <= n
  BY DEF LinesUpTo
<1> DEFINE t == s \o <<first, second>>
<1>1. /\ Len(s) \in Nat /\ DOMAIN s = 1 .. Len(s) /\ DOMAIN t = 1 .. Len(s) + 2
      /\ Len(t) = Len(s) + 2 /\ \A k \in 1 .. Len(s) : t[k] = s[k]
      /\ t[Len(s) + 1] = first /\ t[Len(s) + 2] = second
  <2> DEFINE u == <<first, second>>
  <2>1. Len(u) = 2 /\ u[1] = first /\ u[2] = second
    OBVIOUS
  <2>0. u \in Seq(U)
    OBVIOUS
  <2> HIDE DEF u
  <2>2. /\ s \o u \in Seq(U) /\ Len(s \o u) = Len(s) + Len(u)
        /\ \A i \in 1 .. Len(s) + Len(u) :
              (s \o u)[i] = IF i <= Len(s) THEN s[i] ELSE u[i - Len(s)]
    BY <2>0, ConcatOf
  <2>3. Len(s) \in Nat /\ DOMAIN s = 1 .. Len(s) /\ DOMAIN (s \o u) = 1 .. Len(s \o u)
    BY <2>2, LenProperties
  <2>4. \A k \in 1 .. Len(s) : (s \o u)[k] = s[k]
    BY <2>1, <2>2, <2>3
  <2>5. (s \o u)[Len(s) + 1] = first /\ (s \o u)[Len(s) + 2] = second
    BY <2>1, <2>2, <2>3
  <2> QED BY <2>1, <2>2, <2>3, <2>4, <2>5 DEF u
<1> HIDE DEF t
<1>2. LinesIn(t) = DOMAIN t
  <2>1. \A k \in DOMAIN t : k \in 1 .. Len(s) \/ k = Len(s) + 1 \/ k = Len(s) + 2
    BY <1>1
  <2>2. \A k \in 1 .. Len(s) : "about" \notin DOMAIN s[k]
    BY <1>1 DEF LinesIn
  <2> QED BY <1>1, <2>1, <2>2 DEF LinesIn
<1>3. \A k \in DOMAIN t : t[k].object <=> k % 2 = 1
  <2>1. \A k \in 1 .. Len(s) : s[k].object <=> k % 2 = 1
    BY <1>1 DEF WholeLines
  <2>2. (Len(s) + 1) % 2 = 1 /\ (Len(s) + 2) % 2 = 0
    BY <1>0, <1>1
  <2>3. \A k \in DOMAIN t : k \in 1 .. Len(s) \/ k = Len(s) + 1 \/ k = Len(s) + 2
    BY <1>1
  <2> QED BY <1>1, <2>1, <2>2, <2>3
<1>4. \A k \in DOMAIN t : t[k].object =>
          IF k = Len(s) + 1 THEN t[k].step = n + 1
          ELSE k \in 1 .. Len(s) /\ t[k] = s[k] /\ t[k].step \in Nat /\ t[k].step <= n
  BY <1>0, <1>1
<1>5. ASSUME NEW j \in DOMAIN t, NEW k \in DOMAIN t, j < k, t[j].object, t[k].object
      PROVE  t[j].step < t[k].step
  <2>1. CASE k = Len(s) + 1
    BY <1>1, <1>4, <1>5, <2>1
  <2>2. CASE k # Len(s) + 1
    <3>1. k \in 1 .. Len(s) /\ j \in 1 .. Len(s) /\ t[k] = s[k] /\ t[j] = s[j]
      BY <1>1, <1>4, <1>5, <2>2
    <3> QED BY <1>1, <1>5, <3>1 DEF WholeLines
  <2> QED BY <2>1, <2>2
<1>6. WholeLines(t)
  BY <1>1, <1>2, <1>3, <1>5 DEF WholeLines
<1>7. \A k \in DOMAIN t : t[k].object => t[k].step \in Nat /\ t[k].step <= n + 1
  BY <1>4
<1>8. Len(t) % 2 = 0
  BY <1>0, <1>1
<1>9. LinesUpTo(t, n + 1)
  BY <1>7, <1>8 DEF LinesUpTo
<1> QED BY <1>2, <1>6, <1>9 DEF t

-----------------------------------------------------------------------------
(* What has gone to stderr and what is on its way there: whole lines, all  *)
(* numbered up to the instructions retired, and no message among them      *)
(* before the writer is empty for good.                                    *)
TraceInv ==
    /\ WholeLines(Through("trace"))
    /\ stage \notin {"report_fault", "exit"} => LinesIn(Through("trace")) = DOMAIN Through("trace")
    /\ stage \in BeforeLoad \cup {"load"} => host["trace"] = <<>> /\ buffer["trace"] = <<>>
    /\ stage = "run" => LinesUpTo(Through("trace"), steps)
    /\ stage \in {"report", "report_fault", "complain", "exit"} => buffer["trace"] = <<>>

LEMMA NothingIsWhole ==
    ASSUME NEW units, units = <<>>, NEW n
    PROVE  WholeLines(units) /\ LinesIn(units) = DOMAIN units /\ LinesUpTo(units, n)
<1>1. DOMAIN units = {} /\ Len(units) = 0
  OBVIOUS
<1>2. LinesIn(units) = {}
  BY <1>1 DEF LinesIn
<1> QED BY <1>1, <1>2 DEF WholeLines, LinesUpTo

LEMMA ThroughWhenEmpty ==
    ASSUME NEW U, NEW h \in Seq(U), NEW b, b = <<>>
    PROVE  h \o b = h
BY ConcatEmptySeq

LEMMA TraceStep ==
    ASSUME CliInv, StreamInv, TraceInv, [CliNext]_vars
    PROVE  TraceInv'
<1>0. PICK U : StreamsIn(U) /\ sent \in Seq(U) /\ Units \subseteq U
  BY RoomForUnits
<1>1. /\ "trace" \in Stream /\ "uart" \in Stream
      /\ host["trace"] \in Seq(U) /\ buffer["trace"] \in Seq(U) /\ Through("trace") \in Seq(U)
  BY <1>0, ConcatOf DEF Stream, StreamsIn, Through
<1>2. ASSUME NEW s \in Stream PROVE CAPACITY[s] \in Nat /\ Len(buffer[s]) <= CAPACITY[s]
  BY Capacity DEF StreamInv
<1>3. steps \in Nat
  BY DEF CliInv, MachineInv, MachineTypeOK, CpuTypeOK
<1>4. ASSUME host'["trace"] = host["trace"], buffer'["trace"] = buffer["trace"]
      PROVE  Through("trace")' = Through("trace")
  BY <1>4 DEF Through
<1>5. ASSUME OnlyStream("uart")
      PROVE  host'["trace"] = host["trace"] /\ buffer'["trace"] = buffer["trace"]
  BY <1>1, <1>5 DEF OnlyStream
<1>6. CASE Elsewhere
  <2>1. host' = host /\ buffer' = buffer /\ Through("trace")' = Through("trace")
    BY <1>4, <1>6, ElsewhereKeepsStreams
  <2>2. stage \in BeforeLoad \cup {"load"} =>
          /\ Through("trace") = <<>> /\ buffer'["trace"] = <<>> /\ host'["trace"] = <<>>
    BY <1>1, <2>1, ThroughWhenEmpty DEF Through, TraceInv
  <2>3. stage \in BeforeLoad \cup {"load"} => TraceInv'
    <3>1. ASSUME Through("trace")' = <<>>
          PROVE  /\ WholeLines(Through("trace")) /\ LinesUpTo(Through("trace"), steps)
                 /\ LinesIn(Through("trace")) = DOMAIN Through("trace")
      BY <2>1, <3>1, NothingIsWhole
    <3>2. ASSUME Through("trace")' = <<>>
          PROVE  /\ WholeLines(Through("trace"))' /\ LinesUpTo(Through("trace"), steps)'
                 /\ (LinesIn(Through("trace")) = DOMAIN Through("trace"))'
      BY <3>2, NothingIsWhole
    <3> QED BY <2>1, <2>2, <3>2 DEF TraceInv
  <2>4. CASE UNCHANGED vars
    <3>1. UNCHANGED <<stage, steps>>
      BY <2>4 DEF vars, cliVars, machineVars, cpuVars, runVars
    <3> QED BY <2>1, <3>1 DEF TraceInv
  <2>5. CASE Parse \/ Stat \/ FileChanges \/ ReadFails \/ ReadImage \/ Loading \/ Loaded
    <3>1. stage \in BeforeLoad \cup {"load"}
      <4>1. FileChanges => stage = "read"
        BY DEF FileChanges
      <4> QED BY <2>5, <4>1 DEF Parse, Stat, ReadFails, ReadImage, Loading, Loaded, BeforeLoad
    <3> QED BY <2>3, <3>1
  <2> QED BY <1>6, <2>4, <2>5 DEF Elsewhere
<1>7. CASE RunFirmware
  <2>1. stage = "run" /\ stage' \in {"run", "flush"}
    BY <1>7, RunFirmwareEffect
  <2>2. /\ WholeLines(Through("trace")) /\ LinesUpTo(Through("trace"), steps)
        /\ LinesIn(Through("trace")) = DOMAIN Through("trace")
    BY <2>1 DEF TraceInv
  <2>3. ASSUME Through("trace")' = Through("trace"), steps' >= steps, steps' \in Nat
        PROVE  TraceInv'
    <3> DEFINE all == Through("trace")
    <3>1. WholeLines(all) /\ LinesIn(all) = DOMAIN all /\ LinesUpTo(all, steps)
      BY <2>2
    <3> HIDE DEF all
    <3>2. LinesUpTo(all, steps')
      BY <1>3, <2>3, <3>1 DEF LinesUpTo
    <3>3. /\ WholeLines(all') /\ LinesUpTo(all', steps') /\ LinesIn(all') = DOMAIN all'
      BY <2>3, <3>1, <3>2 DEF all
    <3> QED BY <2>1, <3>3 DEF TraceInv, BeforeLoad, all
  <2>4. steps' \in Nat
    <3>1. MachineInv'
      BY CliStepStage DEF CliInv
    <3> QED BY <3>1 DEF MachineInv, MachineTypeOK, CpuTypeOK
  <2>5. CASE WritesNothing
    BY <1>4, <2>3, <2>4, <2>5 DEF WritesNothing
  <2>6. CASE WritesByte
    <3>1. uart.tx \in Seq(U) /\ Len(uart.tx) <= CAPACITY["uart"]
      <4>1. uart.tx \in Seq(Byte) /\ Len(uart.tx) = 1 /\ Byte \subseteq U
        BY <1>0, <2>6 DEF WritesByte, Units
      <4> QED BY <4>1, <1>1, <1>2, Capacity, SeqMonotonic
    <3>2. OnlyStream("uart")
      BY <1>0, <1>1, <1>2, <2>6, <3>1, WriteEffect DEF WritesByte
    <3>3. steps' >= steps
      BY <1>3, <2>6 DEF WritesByte
    <3> QED BY <1>4, <1>5, <2>3, <2>4, <3>2, <3>3
  <2>7. CASE WritesLine
    <3>1. Line(StepEvent) \in Seq(U) /\ Len(Line(StepEvent)) <= CAPACITY["trace"]
      <4>1. Line(StepEvent) \in Seq(Units) /\ Len(Line(StepEvent)) = 2
        BY LineIsTwoUnits
      <4> QED BY <4>1, <1>0, <1>1, <1>2, Capacity, SeqMonotonic
    <3>2. Through("trace")' \in {Through("trace"), Through("trace") \o Line(StepEvent)}
      BY <1>0, <1>1, <1>2, <2>7, <3>1, WriteEffect DEF WritesLine
    <3>3. steps' = steps + 1
      BY <2>7 DEF WritesLine
    <3>4. CASE Through("trace")' = Through("trace")
      BY <1>3, <2>3, <2>4, <3>3, <3>4
    <3>5. CASE Through("trace")' = Through("trace") \o Line(StepEvent)
      <4> DEFINE all == Through("trace")
                 obj == Line(StepEvent)[1]
                 end == Newline
                 line == Line(StepEvent)
                 m == steps
      <4>1. line = <<obj, end>>
        BY DEF Line
      <4>2. obj \in U /\ end \in U
        BY <1>0 DEF Units
      <4>3. /\ "about" \notin DOMAIN obj /\ obj.object /\ obj.step = m + 1
            /\ "about" \notin DOMAIN end /\ ~ end.object
        BY <3>3 DEF Line, StepEvent, Newline
      <4>4. /\ all \in Seq(U) /\ m \in Nat /\ WholeLines(all) /\ LinesIn(all) = DOMAIN all
            /\ LinesUpTo(all, m)
        BY <1>1, <1>3, <2>2
      <4>5. Through("trace")' = all \o line /\ steps' = m + 1
        BY <3>3, <3>5
      <4> HIDE DEF all, obj, end, line, m
      <4>6. /\ WholeLines(all \o <<obj, end>>) /\ LinesUpTo(all \o <<obj, end>>, m + 1)
            /\ LinesIn(all \o <<obj, end>>) = DOMAIN (all \o <<obj, end>>)
        BY <4>2, <4>3, <4>4, LinesThenLine
      <4>7. /\ WholeLines(all \o line) /\ LinesUpTo(all \o line, m + 1)
            /\ LinesIn(all \o line) = DOMAIN (all \o line)
        BY <4>1, <4>6
      <4> QED BY <2>1, <4>5, <4>7 DEF TraceInv, BeforeLoad
    <3> QED BY <3>2, <3>4, <3>5
  <2> QED BY <1>7, <2>5, <2>6, <2>7, RunFirmwareEffect
<1>8. CASE FlushOrLeave("uart", "flush", "flush_trace") \/ DropWriter("uart", "drop_uart", "drop_trace")
  <2>1. /\ stage \in {"flush", "drop_uart"} /\ stage' \in {"flush_trace", "drop_uart", "drop_trace"}
    BY <1>8 DEF FlushOrLeave, DropWriter
  <2>2. OnlyStream("uart")
    <3>1. CASE FlushOrLeave("uart", "flush", "flush_trace")
      <4>1. PICK k \in Prefixes("uart") : FlushBuf("uart", k, Left("uart", k))
        BY <3>1 DEF FlushOrLeave
      <4> QED BY <1>0, <1>1, <4>1, FlushEffect
    <3>2. CASE DropWriter("uart", "drop_uart", "drop_trace")
      <4>1. PICK k \in Prefixes("uart") : FlushBuf("uart", k, <<>>)
        BY <3>2 DEF DropWriter
      <4> QED BY <1>0, <1>1, <4>1, DropEffect
    <3> QED BY <1>8, <3>1, <3>2
  <2>3. Through("trace")' = Through("trace")
    BY <1>4, <1>5, <2>2
  <2> QED BY <2>1, <2>3 DEF TraceInv, BeforeLoad
<1>9. CASE FlushOrLeave("trace", "flush_trace", "report")
  <2>1. PICK k \in Prefixes("trace") :
            /\ FlushBuf("trace", k, Left("trace", k)) /\ stage = "flush_trace"
            /\ stage' = IF Taken("trace", k) THEN "report" ELSE "drop_uart"
    BY <1>9 DEF FlushOrLeave
  <2>2. Through("trace")' = Through("trace") /\ (Taken("trace", k) => buffer'["trace"] = <<>>)
    BY <1>0, <1>1, <2>1, FlushEffect
  <2> QED BY <2>1, <2>2 DEF TraceInv, BeforeLoad
<1>10. CASE DropWriter("trace", "drop_trace", "complain")
  <2>1. PICK k \in Prefixes("trace") :
            FlushBuf("trace", k, <<>>) /\ stage = "drop_trace" /\ stage' = "complain"
    BY <1>10 DEF DropWriter
  <2>2. StreamsIn(U)' /\ host'["trace"] = Passed("trace", k) /\ buffer'["trace"] = <<>>
    BY <1>0, <1>1, <2>1, DropEffect
  <2>3. host'["trace"] \in Seq(U) /\ Through("trace")' = host'["trace"]
    <3>1. host'["trace"] \in Seq(U)
      BY <1>1, <2>2 DEF StreamsIn
    <3> DEFINE h == host'["trace"]
               b == buffer'["trace"]
    <3>2. h \in Seq(U) /\ b = <<>>
      BY <2>2, <3>1
    <3> HIDE DEF h, b
    <3>3. h \o b = h
      BY <3>2, ThroughWhenEmpty
    <3> QED BY <3>1, <3>3 DEF h, b, Through
  <2>4. S!IsPrefix(host'["trace"], Through("trace"))
    BY <1>1, <2>1, <2>2, PrefixOfConcat DEF Passed, Through, Prefixes
  <2>5. WholeLines(host'["trace"]) /\ LinesIn(host'["trace"]) = DOMAIN host'["trace"]
    <3>1. WholeLines(Through("trace")) /\ LinesIn(Through("trace")) = DOMAIN Through("trace")
      BY <2>1 DEF TraceInv
    <3> QED BY <1>1, <2>3, <2>4, <3>1, LinesOfPrefix
  <2> QED BY <2>1, <2>2, <2>3, <2>5 DEF TraceInv, BeforeLoad
<1>11. CASE Report \/ ReportFault \/ Complain
  <2>1. /\ stage \in {"report", "report_fault", "complain"} /\ stage' \in {"report_fault", "exit"}
    BY <1>11 DEF Report, ReportFault, Complain, Exit
  <2>2. PICK about \in {"summary", "fault", "error"} : Eprintln(Message(about))
    BY <1>11 DEF Report, ReportFault, Complain
  <2>3. Message(about) \in U /\ "about" \in DOMAIN Message(about)
    BY <1>0 DEF Units, Message
  <2>4. /\ StreamsIn(U)' /\ UNCHANGED buffer
        /\ host'["trace"] \in {host["trace"], Append(host["trace"], Message(about))}
    BY <1>0, <2>2, <2>3, EprintlnEffect
  <2>5. buffer["trace"] = <<>> /\ Through("trace") = host["trace"] /\ WholeLines(host["trace"])
    BY <1>1, <2>1, ThroughWhenEmpty DEF TraceInv, Through
  <2>6. WholeLines(host'["trace"])
    BY <1>1, <2>3, <2>4, <2>5, LinesThenMessage
  <2>7. Through("trace")' = host'["trace"]
    <3> DEFINE h == host'["trace"]
               b == buffer'["trace"]
    <3>1. h \in Seq(U) /\ b = <<>>
      BY <1>1, <2>4, <2>5 DEF StreamsIn
    <3> HIDE DEF h, b
    <3>2. h \o b = h
      BY <3>1, ThroughWhenEmpty
    <3> QED BY <3>2 DEF h, b, Through
  <2> QED BY <2>1, <2>4, <2>5, <2>6, <2>7 DEF TraceInv, BeforeLoad
<1> QED BY <1>6, <1>7, <1>8, <1>9, <1>10, <1>11 DEF CliNext, Process, Elsewhere, Flush, DropSink

LEMMA TraceInductive == CliSpec => []TraceInv
<1>1. CliInit => TraceInv
  <2> SUFFICES ASSUME CliInit PROVE TraceInv
    OBVIOUS
  <2>1. host["trace"] = <<>> /\ buffer["trace"] = <<>> /\ stage = "parse"
    BY DEF CliInit, Stream
  <2>2. <<>> \in Seq({})
    BY EmptySeq
  <2>3. Through("trace") = <<>>
    BY <2>1, <2>2, ThroughWhenEmpty DEF Through
  <2>4. WholeLines(Through("trace")) /\ LinesIn(Through("trace")) = DOMAIN Through("trace")
    BY <2>3, NothingIsWhole
  <2> QED BY <2>1, <2>4 DEF TraceInv
<1> QED BY <1>1, TraceStep, CliInductive, StreamInductive, PTL DEF CliSpec

(* Whatever writes fail: what a reader finds on stderr are whole lines of  *)
(* the trace, in the order of the instructions, and then the messages.     *)
THEOREM TraceIsWhole == CliSpec => []TraceLinesAreWhole
<1>1. StreamInv /\ TraceInv => TraceLinesAreWhole
  <2> SUFFICES ASSUME StreamInv, TraceInv PROVE TraceLinesAreWhole
    OBVIOUS
  <2>1. PICK U : StreamsIn(U)
    BY DEF StreamInv
  <2>2. host["trace"] \in Seq(U) /\ buffer["trace"] \in Seq(U) /\ Through("trace") \in Seq(U)
    BY <2>1, ConcatOf DEF StreamsIn, Stream, Through
  <2>3. S!IsPrefix(host["trace"], Through("trace"))
    BY <2>2, PrefixOfWhole DEF Through
  <2>4. WholeLines(host["trace"])
    BY <2>2, <2>3, LinesOfPrefix DEF TraceInv
  <2> QED BY <2>4 DEF WholeLines, LinesIn, TraceLinesAreWhole
<1> QED BY <1>1, StreamInductive, TraceInductive, PTL

-----------------------------------------------------------------------------
(* The summary is printed after two flushes that have left nothing.        *)
SummaryShown == \E k \in DOMAIN host["trace"] : host["trace"][k] = Message("summary")

SummaryInv ==
    /\ stage \in Flushed => buffer["uart"] = <<>>
    /\ SummaryComesLast

LEMMA LinesAreNoSummary ==
    ASSUME NEW U, NEW h \in Seq(U), NEW b \in Seq(U), LinesIn(h \o b) = DOMAIN (h \o b)
    PROVE  \A k \in DOMAIN h : h[k] # Message("summary")
<1>1. h \o b \in Seq(U) /\ S!IsPrefix(h, h \o b)
  BY ConcatOf, PrefixOfWhole
<1>2. LinesIn(h) = DOMAIN h
  <2> DEFINE t == h \o b
  <2>1. t \in Seq(U) /\ S!IsPrefix(h, t) /\ LinesIn(t) = DOMAIN t
    BY <1>1
  <2> HIDE DEF t
  <2> QED BY <2>1, LinesOfPrefix
<1>3. "about" \in DOMAIN Message("summary")
  BY DEF Message
<1> QED BY <1>2, <1>3 DEF LinesIn

LEMMA SummaryStep ==
    ASSUME CliInv, StreamInv, StreamInv', TraceInv, TraceInv', SummaryInv, [CliNext]_vars
    PROVE  SummaryInv'
<1>0. PICK U : StreamsIn(U) /\ sent \in Seq(U) /\ Units \subseteq U
  BY RoomForUnits
<1>1. stage' \notin {"report_fault", "exit"} => ~ SummaryShown'
  <2> SUFFICES ASSUME stage' \notin {"report_fault", "exit"} PROVE ~ SummaryShown'
    OBVIOUS
  <2>1. PICK V : StreamsIn(V)'
    BY DEF StreamInv
  <2> DEFINE h == host'["trace"]
             b == buffer'["trace"]
  <2>2. h \in Seq(V) /\ b \in Seq(V) /\ LinesIn(h \o b) = DOMAIN (h \o b)
    BY <2>1 DEF StreamsIn, Stream, TraceInv, Through
  <2> HIDE DEF h, b
  <2>3. \A k \in DOMAIN h : h[k] # Message("summary")
    BY <2>2, LinesAreNoSummary
  <2> QED BY <2>3 DEF SummaryShown, h
<1>2. ~ SummaryShown' => SummaryComesLast'
  BY DEF SummaryShown, SummaryComesLast
<1>3. (\A s \in Stream : buffer'[s] = <<>>) => SummaryComesLast'
  BY DEF SummaryComesLast
<1>4. stage \in Flushed => buffer["uart"] = <<>>
  BY DEF SummaryInv
<1>5. stage \in {"report", "report_fault"} => \A s \in Stream : buffer[s] = <<>>
  BY <1>4 DEF TraceInv, Flushed, Stream
<1>6. CASE Parse \/ Stat \/ FileChanges \/ ReadFails \/ ReadImage \/ Loading \/ Loaded
  <2>1. stage \in BeforeLoad \cup {"load"}
    <3>1. FileChanges => stage = "read"
      BY DEF FileChanges
    <3> QED BY <1>6, <3>1 DEF Parse, Stat, ReadFails, ReadImage, Loading, Loaded, BeforeLoad
  <2>2. UNCHANGED <<host, buffer>>
    BY <1>6, ElsewhereKeepsStreams DEF Elsewhere
  <2>3. host'["trace"] = <<>>
    BY <2>1, <2>2 DEF TraceInv
  <2>4. ~ SummaryShown'
    BY <2>3 DEF SummaryShown
  <2>5. stage' \notin Flushed
    <3>1. FileChanges => stage' = stage
      BY DEF FileChanges
    <3>2. Loading => stage' = stage
      BY DEF Loading, cliVars
    <3> QED BY <1>6, <2>1, <3>1, <3>2
            DEF Parse, Stat, ReadFails, ReadImage, Loaded, BeforeLoad, Flushed, Exit
  <2> QED BY <1>2, <2>4, <2>5 DEF SummaryInv
<1>7. CASE UNCHANGED vars
  <2>1. UNCHANGED <<stage, host, buffer>>
    BY <1>7 DEF vars, cliVars
  <2> QED BY <2>1 DEF SummaryInv, SummaryComesLast
<1>8. CASE RunFirmware \/ DropSink
  <2>1. stage' \notin Flushed \cup {"exit"}
    <3>1. RunFirmware => stage' \in {"run", "flush"}
      BY RunFirmwareEffect
    <3> QED BY <1>8, <3>1 DEF DropSink, DropWriter, Flushed
  <2> QED BY <1>1, <1>2, <2>1 DEF SummaryInv, Flushed
<1>9. CASE FlushOrLeave("uart", "flush", "flush_trace")
  <2>1. PICK k \in Prefixes("uart") :
            /\ FlushBuf("uart", k, Left("uart", k))
            /\ stage' = IF Taken("uart", k) THEN "flush_trace" ELSE "drop_uart"
    BY <1>9 DEF FlushOrLeave
  <2>2. Taken("uart", k) => buffer'["uart"] = <<>>
    BY <1>0, <2>1, FlushEffect DEF Stream
  <2> QED BY <1>1, <1>2, <2>1, <2>2 DEF SummaryInv, Flushed
<1>10. CASE FlushOrLeave("trace", "flush_trace", "report")
  <2>1. PICK k \in Prefixes("trace") :
            /\ FlushBuf("trace", k, Left("trace", k)) /\ stage = "flush_trace"
            /\ stage' \in {"report", "drop_uart"}
    BY <1>10 DEF FlushOrLeave
  <2>2. OnlyStream("trace")
    BY <1>0, <2>1, FlushEffect DEF Stream
  <2>3. buffer'["uart"] = <<>>
    BY <1>4, <2>1, <2>2 DEF OnlyStream, Stream, Flushed
  <2> QED BY <1>1, <1>2, <2>1, <2>3 DEF SummaryInv
<1>11. CASE Report \/ ReportFault
  <2>1. stage \in {"report", "report_fault"}
    BY <1>11 DEF Report, ReportFault
  <2>2. UNCHANGED buffer
    BY <1>11 DEF Report, ReportFault, Eprintln
  <2>3. \A s \in Stream : buffer'[s] = <<>>
    BY <1>5, <2>1, <2>2
  <2> QED BY <1>3, <2>3 DEF SummaryInv, Stream
<1>12. CASE Complain
  <2>1. stage = "complain" /\ stage' = "exit" /\ Eprintln(Message("error"))
    BY <1>12 DEF Complain, Exit
  <2>2. Message("error") \in U
    BY <1>0 DEF Units
  <2>3. host'["trace"] \in {host["trace"], Append(host["trace"], Message("error"))}
    BY <1>0, <2>1, <2>2, EprintlnEffect
  <2>4. ~ SummaryShown
    <3>1. host["trace"] \in Seq(U) /\ buffer["trace"] \in Seq(U)
      BY <1>0 DEF StreamsIn, Stream
    <3>2. LinesIn(host["trace"] \o buffer["trace"]) = DOMAIN (host["trace"] \o buffer["trace"])
      BY <2>1 DEF TraceInv, Through
    <3> QED BY <3>1, <3>2, LinesAreNoSummary DEF SummaryShown
  <2>5. Message("error") # Message("summary")
    <3>1. Message("error").about = "error" /\ Message("summary").about = "summary"
      BY DEF Message
    <3> QED BY <3>1
  <2>6. ~ SummaryShown'
    <3> DEFINE h == host["trace"]
               error == Message("error")
    <3>1. h \in Seq(U)
      BY <1>0 DEF StreamsIn, Stream
    <3>2. error \in U
      BY <2>2
    <3> HIDE DEF h, error
    <3>3. /\ Len(h) \in Nat /\ DOMAIN h = 1 .. Len(h) /\ DOMAIN Append(h, error) = 1 .. Len(h) + 1
          /\ \A k \in 1 .. Len(h) : Append(h, error)[k] = h[k]
          /\ Append(h, error)[Len(h) + 1] = error
      <4>1. /\ Append(h, error) \in Seq(U) /\ Len(Append(h, error)) = Len(h) + 1
            /\ \A k \in 1 .. Len(h) : Append(h, error)[k] = h[k]
            /\ Append(h, error)[Len(h) + 1] = error
        BY <3>1, <3>2, AppendProperties
      <4> QED BY <3>1, <4>1, LenProperties
    <3>4. \A k \in DOMAIN h : h[k] # Message("summary")
      BY <2>4 DEF SummaryShown, h
    <3>5. error # Message("summary")
      BY <2>5 DEF error
    <3> DEFINE a == Append(h, error)
    <3> HIDE DEF a
    <3>6. \A k \in DOMAIN a : a[k] # Message("summary")
      BY <3>3, <3>4, <3>5 DEF a
    <3>7. host'["trace"] = h \/ host'["trace"] = a
      BY <2>3 DEF h, a, error
    <3> QED BY <3>4, <3>6, <3>7 DEF SummaryShown
  <2> QED BY <1>2, <2>1, <2>6 DEF SummaryInv, Flushed
<1> QED BY <1>6, <1>7, <1>8, <1>9, <1>10, <1>11, <1>12 DEF CliNext, Process, Flush

(* When the summary is on stderr, nothing of the firmware's output and     *)
(* nothing of the trace is still to come.                                  *)
THEOREM SummaryIsLast == CliSpec => []SummaryComesLast
<1>1. CliInit => SummaryInv
  <2> SUFFICES ASSUME CliInit PROVE SummaryInv
    OBVIOUS
  <2>1. stage = "parse" /\ \A s \in Stream : buffer[s] = <<>>
    BY DEF CliInit
  <2> QED BY <2>1 DEF SummaryInv, SummaryComesLast, Flushed
<1>2. SummaryInv => SummaryComesLast
  BY DEF SummaryInv
<1> QED BY <1>1, <1>2, SummaryStep, CliInductive, StreamInductive, TraceInductive, PTL DEF CliSpec
-----------------------------------------------------------------------------
(* No step of the process leads back, and what it calls comes to an end:   *)
(* with fairness, all that CommandEnds needs, for every file, every        *)
(* firmware and whatever becomes of the streams.                           *)
LEMMA AheadFalls ==
    \/ stage = "parse" /\ stage' \in {"stat", "exit"}
    \/ stage = "stat" /\ stage' \in {"read", "complain"}
    \/ stage = "read" /\ stage' \in {"load", "complain"}
    \/ stage = "load" /\ stage' \in {"run", "complain"}
    \/ stage = "run" /\ stage' = "flush"
    \/ stage = "flush" /\ stage' \in {"flush_trace", "drop_uart"}
    \/ stage = "flush_trace" /\ stage' \in {"report", "drop_uart"}
    \/ stage = "report" /\ stage' \in {"report_fault", "exit"}
    \/ stage = "report_fault" /\ stage' = "exit"
    \/ stage = "drop_uart" /\ stage' = "drop_trace"
    \/ stage = "drop_trace" /\ stage' = "complain"
    \/ stage = "complain" /\ stage' = "exit"
    => Ahead[stage'] < Ahead[stage]
BY DEF Ahead

THEOREM EveryStepAdvances == CliSpec => CommandAdvances
<1> DEFINE Step1 == \/ Ahead[stage'] < Ahead[stage]
                    \/ stage' = stage /\ CallWork' \in 0 .. CallWork - 1
<1>1. ASSUME CliInv, CliInv', CliNext, UNCHANGED file, ~ UNCHANGED vars
      PROVE  Step1
  <2>m. MachineInv /\ MachineInv'
    BY <1>1 DEF CliInv
  <2>1. CASE Parse \/ Stat \/ ReadFails \/ ReadImage \/ Loaded
    <3>1. \/ stage = "parse" /\ stage' \in {"stat", "exit"}
          \/ stage = "stat" /\ stage' \in {"read", "complain"}
          \/ stage = "read" /\ stage' \in {"load", "complain"}
          \/ stage = "load" /\ stage' \in {"run", "complain"}
      BY <2>1 DEF Parse, Stat, ReadFails, ReadImage, Loaded, Exit
    <3> QED BY <3>1, AheadFalls
  <2>2. CASE Loading
    <3>1. stage' = stage /\ LoadElf
      BY <2>2 DEF Loading, cliVars
    <3> QED BY <2>m, <3>1, WorkOfLoad
  <2>3. CASE RunFirmware
    <3>1. stage = "run" /\ stage' \in {"run", "flush"} /\ Running
      BY <2>3 DEF RunFirmware
    <3>2. CASE stage' = "flush"
      BY <3>1, <3>2, AheadFalls
    <3>3. CASE stage' = "run"
      <4>1. CallWork' \in 0 .. CallWork - 1
        BY <2>m, <3>1, WorkOfRunning
      <4> QED BY <3>1, <3>3, <4>1
    <3> QED BY <3>1, <3>2, <3>3
  <2>4. CASE Flush \/ DropSink
    <3>1. \/ stage = "flush" /\ stage' \in {"flush_trace", "drop_uart"}
          \/ stage = "flush_trace" /\ stage' \in {"report", "drop_uart"}
          \/ stage = "drop_uart" /\ stage' = "drop_trace"
          \/ stage = "drop_trace" /\ stage' = "complain"
      BY <2>4 DEF Flush, FlushOrLeave, DropSink, DropWriter
    <3> QED BY <3>1, AheadFalls
  <2>5. CASE Report \/ ReportFault \/ Complain
    <3>1. \/ stage = "report" /\ stage' \in {"report_fault", "exit"}
          \/ stage = "report_fault" /\ stage' = "exit"
          \/ stage = "complain" /\ stage' = "exit"
      BY <2>5 DEF Report, ReportFault, Complain, Exit
    <3> QED BY <3>1, AheadFalls
  <2>6. CASE FileChanges
    <3>1. UNCHANGED vars
      BY <1>1, <2>6 DEF FileChanges, vars, cliVars, given
    <3> QED BY <1>1, <3>1
  <2> QED BY <1>1, <2>1, <2>2, <2>3, <2>4, <2>5, <2>6 DEF CliNext, Process
<1>2. CliInv /\ CliInv' /\ [CliNext]_vars =>
        [UNCHANGED file => \/ Ahead[stage'] < Ahead[stage]
                           \/ stage' = stage /\ CallWork' \in 0 .. CallWork - 1]_vars
  BY <1>1
<1> QED BY <1>2, CliInductive, PTL DEF CliSpec, CommandAdvances
-----------------------------------------------------------------------------
(* What a step may do to the trace that is on its way or has come out:     *)
(* nothing; one more line; lose its end; one message more.                 *)
LEMMA TraceMoves ==
    ASSUME CliInv, StreamInv, TraceInv, [CliNext]_vars
    PROVE  \E U :
             /\ Through("trace") \in Seq(U) /\ Through("trace")' \in Seq(U) /\ Units \subseteq U
             /\ \/ Through("trace")' = Through("trace")
                \/ /\ RunFirmware /\ WritesLine
                   /\ Through("trace")' = Through("trace") \o Line(StepEvent)
                \/ /\ DropWriter("trace", "drop_trace", "complain")
                   /\ S!IsPrefix(Through("trace")', Through("trace"))
                \/ /\ Report \/ ReportFault \/ Complain
                   /\ \E about \in {"summary", "fault", "error"} :
                         Through("trace")' = Append(Through("trace"), Message(about))
<1>0. PICK U : StreamsIn(U) /\ sent \in Seq(U) /\ Units \subseteq U
  BY RoomForUnits
<1>1. /\ "trace" \in Stream /\ "uart" \in Stream
      /\ host["trace"] \in Seq(U) /\ buffer["trace"] \in Seq(U) /\ Through("trace") \in Seq(U)
  BY <1>0, ConcatOf DEF Stream, StreamsIn, Through
<1>2. ASSUME NEW s \in Stream PROVE CAPACITY[s] \in Nat /\ Len(buffer[s]) <= CAPACITY[s]
  BY Capacity DEF StreamInv
<1> DEFINE all == Through("trace")
           line == Line(StepEvent)
<1>3. ASSUME all' = all
      PROVE  all \in Seq(U) /\ all' \in Seq(U) /\ Units \subseteq U /\ all' = all
  BY <1>0, <1>1, <1>3
<1>4. ASSUME OnlyStream("uart") \/ UNCHANGED <<host, buffer>>
      PROVE  all' = all
  BY <1>1, <1>4 DEF OnlyStream, Through
<1>6. CASE Elsewhere
  BY <1>3, <1>4, <1>6, ElsewhereKeepsStreams
<1>7. CASE RunFirmware
  <2>1. CASE WritesNothing
    BY <1>3, <1>4, <2>1 DEF WritesNothing
  <2>2. CASE WritesByte
    <3>1. uart.tx \in Seq(U) /\ Len(uart.tx) <= CAPACITY["uart"]
      <4>1. uart.tx \in Seq(Byte) /\ Len(uart.tx) = 1 /\ Byte \subseteq U
        BY <1>0, <2>2 DEF WritesByte, Units
      <4> QED BY <4>1, <1>1, <1>2, Capacity, SeqMonotonic
    <3>2. OnlyStream("uart")
      BY <1>0, <1>1, <1>2, <2>2, <3>1, WriteEffect DEF WritesByte
    <3> QED BY <1>3, <1>4, <3>2
  <2>3. CASE WritesLine
    <3>1. line \in Seq(U) /\ Len(line) <= CAPACITY["trace"]
      <4>1. line \in Seq(Units) /\ Len(line) = 2
        BY LineIsTwoUnits
      <4> QED BY <4>1, <1>0, <1>1, <1>2, Capacity, SeqMonotonic
    <3>2. all' \in {all, all \o line}
      BY <1>0, <1>1, <1>2, <2>3, <3>1, WriteEffect DEF WritesLine
    <3> HIDE DEF all, line
    <3>3. all \in Seq(U)
      BY <1>1 DEF all
    <3>4. all \o line \in Seq(U)
      BY <3>1, <3>3, ConcatOf
    <3> QED BY <1>0, <1>7, <2>3, <3>2, <3>3, <3>4 DEF all, line
  <2> QED BY <1>7, <2>1, <2>2, <2>3, RunFirmwareEffect
<1>8. CASE Flush
  <2>1. PICK s \in Stream : \E k \in Prefixes(s) : FlushBuf(s, k, Left(s, k))
    BY <1>1, <1>8 DEF Flush, FlushOrLeave
  <2>2. PICK k \in Prefixes(s) : FlushBuf(s, k, Left(s, k))
    BY <2>1
  <2>3. OnlyStream(s) /\ Through(s)' = Through(s)
    BY <1>0, <2>2, FlushEffect
  <2>4. s = "trace" \/ s = "uart"
    BY DEF Stream
  <2> QED BY <1>3, <1>4, <2>3, <2>4
<1>9. CASE DropWriter("uart", "drop_uart", "drop_trace")
  <2>1. PICK k \in Prefixes("uart") : FlushBuf("uart", k, <<>>)
    BY <1>9 DEF DropWriter
  <2>2. OnlyStream("uart")
    BY <1>0, <1>1, <2>1, DropEffect
  <2> QED BY <1>3, <1>4, <2>2
<1>10. CASE DropWriter("trace", "drop_trace", "complain")
  <2>1. PICK k \in Prefixes("trace") : FlushBuf("trace", k, <<>>)
    BY <1>10 DEF DropWriter
  <2>2. StreamsIn(U)' /\ host'["trace"] = Passed("trace", k) /\ buffer'["trace"] = <<>>
    BY <1>0, <1>1, <2>1, DropEffect
  <2> DEFINE h == host'["trace"]
             b == buffer'["trace"]
  <2>3. h \in Seq(U) /\ b = <<>>
    BY <1>1, <2>2 DEF StreamsIn
  <2>4. S!IsPrefix(h, all)
    BY <1>1, <2>1, <2>2, PrefixOfConcat DEF Passed, Through, Prefixes
  <2>5. all' = h \o b
    BY DEF Through
  <2> HIDE DEF h, b, all
  <2>6. all' = h
    BY <2>3, <2>5, ThroughWhenEmpty
  <2>7. all \in Seq(U)
    BY <1>1 DEF all
  <2> QED BY <1>0, <1>10, <2>3, <2>4, <2>6, <2>7 DEF all
<1>11. CASE Report \/ ReportFault \/ Complain
  <2>1. stage \in {"report", "report_fault", "complain"}
    BY <1>11 DEF Report, ReportFault, Complain
  <2>2. PICK about \in {"summary", "fault", "error"} : Eprintln(Message(about))
    BY <1>11 DEF Report, ReportFault, Complain
  <2>3. Message(about) \in U
    BY <1>0 DEF Units
  <2>4. /\ StreamsIn(U)' /\ UNCHANGED buffer
        /\ host'["trace"] \in {host["trace"], Append(host["trace"], Message(about))}
    BY <1>0, <2>2, <2>3, EprintlnEffect
  <2>5. buffer["trace"] = <<>> /\ all = host["trace"]
    BY <1>1, <2>1, ThroughWhenEmpty DEF TraceInv, Through
  <2> DEFINE h == host'["trace"]
             b == buffer'["trace"]
  <2>6. h \in Seq(U) /\ b = <<>>
    BY <1>1, <2>4, <2>5 DEF StreamsIn
  <2>7. all' = h \o b /\ h \in {all, Append(all, Message(about))}
    BY <2>4, <2>5 DEF Through
  <2> HIDE DEF h, b, all
  <2>8. all' = h
    BY <2>6, <2>7, ThroughWhenEmpty
  <2>9. all \in Seq(U)
    BY <1>1 DEF all
  <2> QED BY <1>0, <1>11, <2>2, <2>6, <2>7, <2>8, <2>9 DEF all
<1> QED BY <1>6, <1>7, <1>8, <1>9, <1>10, <1>11 DEF CliNext, Process, Elsewhere, DropSink
-----------------------------------------------------------------------------
(* The trace is a replay also where lines are missing: of the objects on   *)
(* their way or out, those with neighbouring numbers follow each other,    *)
(* and one with the number of the instruction retired last is about it.    *)
Replays(units) ==
    \A j, k \in Objects(units) :
        units[k].step = units[j].step + 1 => Follows(units[k], units[j])

UpToDate(units) ==
    \A k \in Objects(units) :
        units[k].step = steps => units[k].a = regs /\ LeadsTo(units[k], pc)

IsNumber(n, units, object) ==
    \A k \in Objects(units) : units[k].step = n => units[k] = object

Succeeds(next, units, n) ==
    \A k \in Objects(units) : units[k].step = n => Follows(next, units[k])

ReadInv ==
    /\ Replays(Through("trace"))
    /\ stage = "run" => UpToDate(Through("trace"))

LEMMA ReplaysOfPrefix ==
    ASSUME NEW U, NEW s \in Seq(U), NEW t \in Seq(U), S!IsPrefix(s, t), Replays(t)
    PROVE  Replays(s)
<1>1. /\ Len(s) \in Nat /\ Len(t) \in Nat /\ Len(s) <= Len(t)
      /\ DOMAIN s = 1 .. Len(s) /\ DOMAIN t = 1 .. Len(t)
      /\ \A k \in 1 .. Len(s) : s[k] = t[k]
  BY PrefixPointwise, LenProperties
<1>2. \A k \in Objects(s) : k \in Objects(t) /\ s[k] = t[k]
  BY <1>1 DEF Objects
<1> QED BY <1>2 DEF Replays

LEMMA ReplaysThenMessage ==
    ASSUME NEW U, NEW s \in Seq(U), NEW message \in U, "about" \in DOMAIN message, Replays(s)
    PROVE  Replays(Append(s, message))
<1> DEFINE t == Append(s, message)
<1>1. /\ Len(s) \in Nat /\ DOMAIN s = 1 .. Len(s) /\ DOMAIN t = 1 .. Len(s) + 1
      /\ t[Len(s) + 1] = message /\ \A k \in 1 .. Len(s) : t[k] = s[k]
  <2>1. /\ t \in Seq(U) /\ Len(t) = Len(s) + 1
        /\ \A k \in 1 .. Len(s) : t[k] = s[k]
        /\ t[Len(s) + 1] = message
    BY AppendProperties
  <2> QED BY <2>1, LenProperties
<1> HIDE DEF t
<1>2. \A k \in Objects(t) : k \in Objects(s) /\ t[k] = s[k]
  BY <1>1 DEF Objects
<1>3. Replays(t)
  BY <1>2 DEF Replays
<1> QED BY <1>3 DEF t

LEMMA ReplaysThenLine ==
    ASSUME NEW U, NEW s \in Seq(U), NEW first \in U, NEW second \in U, NEW n \in Nat,
           Replays(s), LinesUpTo(s, n), first.step = n + 1, ~ second.object,
           Succeeds(first, s, n)
    PROVE  /\ Replays(s \o <<first, second>>)
           /\ IsNumber(n + 1, s \o <<first, second>>, first)
<1> DEFINE t == s \o <<first, second>>
<1>1. /\ Len(s) \in Nat /\ DOMAIN s = 1 .. Len(s) /\ DOMAIN t = 1 .. Len(s) + 2
      /\ \A k \in 1 .. Len(s) : t[k] = s[k]
      /\ t[Len(s) + 1] = first /\ t[Len(s) + 2] = second
  <2> DEFINE u == <<first, second>>
  <2>1. Len(u) = 2 /\ u[1] = first /\ u[2] = second
    OBVIOUS
  <2>0. u \in Seq(U)
    OBVIOUS
  <2> HIDE DEF u
  <2>2. /\ s \o u \in Seq(U) /\ Len(s \o u) = Len(s) + Len(u)
        /\ \A i \in 1 .. Len(s) + Len(u) :
              (s \o u)[i] = IF i <= Len(s) THEN s[i] ELSE u[i - Len(s)]
    BY <2>0, ConcatOf
  <2>3. Len(s) \in Nat /\ DOMAIN s = 1 .. Len(s) /\ DOMAIN (s \o u) = 1 .. Len(s \o u)
    BY <2>2, LenProperties
  <2>4. \A k \in 1 .. Len(s) : (s \o u)[k] = s[k]
    BY <2>1, <2>2, <2>3
  <2>5. (s \o u)[Len(s) + 1] = first /\ (s \o u)[Len(s) + 2] = second
    BY <2>1, <2>2, <2>3
  <2> QED BY <2>1, <2>2, <2>3, <2>4, <2>5 DEF u
<1> HIDE DEF t
<1>2. \A k \in Objects(t) : (k \in Objects(s) /\ t[k] = s[k]) \/ t[k] = first
  <2>1. \A k \in DOMAIN t : k \in 1 .. Len(s) \/ k = Len(s) + 1 \/ k = Len(s) + 2
    BY <1>1
  <2> QED BY <1>1, <2>1 DEF Objects
<1>3. \A k \in Objects(s) : s[k].step \in Nat /\ s[k].step <= n
  BY DEF LinesUpTo, Objects
<1>4. ASSUME NEW j \in Objects(t), NEW k \in Objects(t), t[k].step = t[j].step + 1
      PROVE  Follows(t[k], t[j])
  <2>1. CASE (k \in Objects(s) /\ t[k] = s[k]) /\ (j \in Objects(s) /\ t[j] = s[j])
    BY <1>4, <2>1 DEF Replays
  <2>2. CASE (k \in Objects(s) /\ t[k] = s[k]) /\ t[j] = first
    BY <1>3, <1>4, <2>2
  <2>3. CASE t[k] = first /\ (j \in Objects(s) /\ t[j] = s[j])
    <3>1. s[j].step = n
      BY <1>3, <1>4, <2>3
    <3> QED BY <2>3, <3>1 DEF Succeeds
  <2>4. CASE t[k] = first /\ t[j] = first
    BY <1>4, <2>4
  <2> QED BY <1>2, <2>1, <2>2, <2>3, <2>4
<1>5. ASSUME NEW k \in Objects(t), t[k].step = n + 1
      PROVE  t[k] = first
  BY <1>2, <1>3, <1>5
<1> QED BY <1>4, <1>5 DEF Replays, IsNumber, t

(* A step of the run is an instruction or leaves the core where it is. *)
LEMMA RunMoves ==
    ASSUME MachineInv, Running
    PROVE  /\ CpuTypeOK
           /\ \/ UNCHANGED <<steps, regs, pc>>
              \/ Step /\ steps' = steps + 1
<1>1. CpuTypeOK
  BY DEF MachineInv, MachineTypeOK
<1>2. CASE RunStep
  <2>1. Step /\ steps \in Nat
    BY <1>1, <1>2 DEF RunStep, CpuTypeOK
  <2>2. ReturnWithoutExecuting \/ (\E fault : FaultWith(fault)) \/ \E next : Retire(next)
    BY <2>1, StepOutcome
  <2> QED BY <1>1, <2>1, <2>2 DEF ReturnWithoutExecuting, FaultWith, Retire
<1>3. CASE LoopEnds \/ DrainAfterStep \/ FinishRun
  BY <1>1, <1>3 DEF LoopEnds, DrainAfterStep, FinishRun, HaltWith, cpuVars
<1> QED BY <1>2, <1>3 DEF Running

(* The line of an instruction follows the line of the one before it. *)
LEMMA LineFollows ==
    ASSUME CpuTypeOK, Step, steps' = steps + 1,
           NEW previous, previous.step = steps, previous.a = regs, LeadsTo(previous, pc)
    PROVE  Follows(Object(StepEvent), previous)
<1> DEFINE object == Object(StepEvent)
<1>1. /\ object.step = steps' /\ object.pc = pc /\ object.len = InstSize /\ object.a = regs'
      /\ \A r \in Reg \ Written(object) : regs'[r] = regs[r]
      /\ Read(object).op \in {"Call", "CallReg"} => regs'[A0] = WrapAdd(pc, InstSize)
      /\ NamesItsWord(object)
  BY LineFields, LineSays
<1> HIDE DEF object
<1>2. Follows(object, previous)
  BY <1>1 DEF Follows
<1> QED BY <1>2 DEF object

LEMMA ReadStep ==
    ASSUME CliInv, StreamInv, TraceInv, ReadInv, [CliNext]_vars
    PROVE  ReadInv'
<1> DEFINE all == Through("trace")
           obj == Line(StepEvent)[1]
           end == Newline
           line == Line(StepEvent)
           m == steps
<1>0. PICK U :
        /\ all \in Seq(U) /\ all' \in Seq(U) /\ Units \subseteq U
        /\ \/ all' = all
           \/ RunFirmware /\ WritesLine /\ all' = all \o line
           \/ DropWriter("trace", "drop_trace", "complain") /\ S!IsPrefix(all', all)
           \/ /\ Report \/ ReportFault \/ Complain
              /\ \E about \in {"summary", "fault", "error"} :
                    all' = Append(all, Message(about))
  BY TraceMoves
<1>1. all \in Seq(U) /\ all' \in Seq(U) /\ Units \subseteq U /\ Replays(all)
  BY <1>0 DEF ReadInv
<1>2. RunFirmware =>
        /\ stage = "run" /\ CpuTypeOK /\ m \in Nat /\ LinesUpTo(all, m) /\ UpToDate(all)
        /\ \/ UNCHANGED <<steps, regs, pc>>
           \/ Step /\ steps' = steps + 1
  <2> SUFFICES ASSUME RunFirmware
               PROVE  /\ stage = "run" /\ CpuTypeOK /\ m \in Nat
                      /\ LinesUpTo(all, m) /\ UpToDate(all)
                      /\ \/ UNCHANGED <<steps, regs, pc>>
                         \/ Step /\ steps' = steps + 1
    OBVIOUS
  <2>1. stage = "run" /\ Running /\ MachineInv
    BY DEF RunFirmware, CliInv
  <2>2. CpuTypeOK /\ (UNCHANGED <<steps, regs, pc>> \/ (Step /\ steps' = steps + 1))
    BY <2>1, RunMoves
  <2> QED BY <2>1, <2>2 DEF TraceInv, ReadInv, CpuTypeOK
<1>3. ASSUME RunFirmware, WritesLine, all' = all \o line
      PROVE  Replays(all') /\ UpToDate(Through("trace"))'
  <2>1. Step /\ steps' = m + 1
    BY <1>2, <1>3 DEF WritesLine, CpuTypeOK
  <2>2. ASSUME NEW k \in Objects(all), all[k].step = m
        PROVE  Follows(obj, all[k])
    <3> DEFINE previous == all[k]
    <3>1. previous.step = steps /\ previous.a = regs /\ LeadsTo(previous, pc)
      BY <1>2, <1>3, <2>2 DEF UpToDate
    <3> HIDE DEF previous
    <3>2. Follows(Object(StepEvent), previous)
      BY <1>2, <1>3, <2>1, <3>1, LineFollows
    <3> QED BY <3>2 DEF previous, Object
  <2>3. line = <<obj, end>> /\ obj \in U /\ end \in U
    BY <1>1 DEF Line, Units
  <2>4. obj.step = m + 1 /\ ~ end.object /\ obj.a = regs' /\ LeadsTo(obj, pc')
    <3>1. /\ Object(StepEvent).step = steps' /\ Object(StepEvent).a = regs'
          /\ LeadsTo(Object(StepEvent), pc')
      BY <1>2, <1>3, <2>1, LineFields, LineSays
    <3> QED BY <2>1, <3>1 DEF Object, Newline
  <2>5. Replays(all) /\ all \in Seq(U) /\ m \in Nat /\ LinesUpTo(all, m)
    BY <1>1, <1>2, <1>3
  <2>6. all' = all \o line
    BY <1>3
  <2> HIDE DEF all, obj, end, line, m
  <2>7. /\ Replays(all \o <<obj, end>>)
        /\ IsNumber(m + 1, all \o <<obj, end>>, obj)
    <3>1. Succeeds(obj, all, m)
      BY <2>2 DEF Succeeds
    <3> QED BY <2>3, <2>4, <2>5, <3>1, ReplaysThenLine
  <2>8. /\ Replays(all')
        /\ \A k \in Objects(all') : all'[k].step = m + 1 => all'[k] = obj
    BY <2>3, <2>6, <2>7 DEF IsNumber
  <2>9. \A k \in Objects(all') : all'[k].step = steps' => all'[k].a = regs' /\ LeadsTo(all'[k], pc')
    BY <2>1, <2>4, <2>8
  <2> QED BY <2>8, <2>9 DEF UpToDate, all
<1>4. Replays(all')
  <2>1. CASE all' = all
    BY <1>1, <2>1
  <2>2. CASE S!IsPrefix(all', all)
    <3> HIDE DEF all
    <3> QED BY <1>1, <2>2, ReplaysOfPrefix
  <2>3. ASSUME NEW about \in {"summary", "fault", "error"}, all' = Append(all, Message(about))
        PROVE  Replays(all')
    <3>1. Message(about) \in U /\ "about" \in DOMAIN Message(about)
      BY <1>1 DEF Units, Message
    <3> HIDE DEF all
    <3> QED BY <1>1, <2>3, <3>1, ReplaysThenMessage
  <2> QED BY <1>0, <1>3, <2>1, <2>2, <2>3
<1>5. ASSUME stage' = "run"
      PROVE  UpToDate(Through("trace"))'
  <2>1. CASE UNCHANGED vars
    <3>1. UNCHANGED <<host, buffer, stage, steps, regs, pc>>
      BY <2>1 DEF vars, cliVars, machineVars, cpuVars
    <3>2. all' = all
      BY <3>1 DEF Through
    <3>3. UpToDate(all)
      BY <1>5, <3>1 DEF ReadInv
    <3> QED BY <3>1, <3>2, <3>3 DEF UpToDate
  <2>2. CASE Loaded
    <3>1. stage = "load" /\ UNCHANGED <<host, buffer>>
      BY <2>2, ElsewhereKeepsStreams DEF Loaded, Elsewhere
    <3>2. all = <<>> /\ all' = all
      <4>1. host["trace"] = <<>> /\ buffer["trace"] = <<>> /\ <<>> \in Seq({})
        BY <3>1, EmptySeq DEF TraceInv
      <4>2. all = <<>>
        BY <4>1, ThroughWhenEmpty DEF Through
      <4> QED BY <3>1, <4>2 DEF Through
    <3>3. Objects(all') = {}
      BY <3>2 DEF Objects
    <3> QED BY <3>3 DEF UpToDate
  <2>3. CASE RunFirmware
    <3>1. CASE UNCHANGED <<steps, regs, pc>>
      <4>1. ~ WritesLine
        BY <1>2, <2>3, <3>1 DEF WritesLine, CpuTypeOK
      <4>2. all' = all
        BY <1>0, <1>2, <2>3, <4>1 DEF DropWriter, Report, ReportFault, Complain
      <4> QED BY <1>2, <2>3, <3>1, <4>2 DEF UpToDate
    <3>2. CASE Step /\ steps' = steps + 1
      <4>1. CASE all' = all
        <5>1. \A k \in Objects(all) : all[k].step \in Nat /\ all[k].step <= steps
          BY <1>2, <2>3 DEF LinesUpTo, Objects
        <5>2. \A k \in Objects(all) : all[k].step # steps'
          BY <1>2, <2>3, <3>2, <5>1
        <5> QED BY <4>1, <5>2 DEF UpToDate
      <4>2. CASE WritesLine /\ all' = all \o line
        BY <1>3, <2>3, <4>2
      <4> QED BY <1>0, <1>2, <2>3, <4>1, <4>2 DEF DropWriter, Report, ReportFault, Complain
    <3> QED BY <1>2, <2>3, <3>1, <3>2
  <2>4. CASE ~ (UNCHANGED vars \/ Loaded \/ RunFirmware)
    <3>1. stage' # "run"
      BY <2>4 DEF CliNext, Process, Parse, Stat, FileChanges, ReadFails, ReadImage, Loading,
         Flush, FlushOrLeave, DropSink, DropWriter, Report, ReportFault, Complain, Exit,
         cliVars
    <3> QED BY <1>5, <3>1
  <2> QED BY <2>1, <2>2, <2>3, <2>4
<1> QED BY <1>4, <1>5 DEF ReadInv

LEMMA ReadInductive == CliSpec => []ReadInv
<1>1. CliInit => ReadInv
  <2> SUFFICES ASSUME CliInit PROVE ReadInv
    OBVIOUS
  <2>1. host["trace"] = <<>> /\ buffer["trace"] = <<>> /\ stage = "parse" /\ <<>> \in Seq({})
    BY EmptySeq DEF CliInit, Stream
  <2>2. Through("trace") = <<>>
    BY <2>1, ThroughWhenEmpty DEF Through
  <2>3. Objects(Through("trace")) = {}
    BY <2>2 DEF Objects
  <2> QED BY <2>1, <2>3 DEF ReadInv, Replays
<1> QED BY <1>1, ReadStep, CliInductive, StreamInductive, TraceInductive, PTL DEF CliSpec

(* For every firmware and whatever is lost: two lines on stderr with       *)
(* neighbouring numbers are neighbouring instructions.                     *)
THEOREM StderrReplays == CliSpec => []StderrIsReplayable
<1>1. StreamInv /\ ReadInv => StderrIsReplayable
  <2> SUFFICES ASSUME StreamInv, ReadInv PROVE StderrIsReplayable
    OBVIOUS
  <2>1. PICK U : StreamsIn(U)
    BY DEF StreamInv
  <2>2. host["trace"] \in Seq(U) /\ buffer["trace"] \in Seq(U) /\ Through("trace") \in Seq(U)
    BY <2>1, ConcatOf DEF StreamsIn, Stream, Through
  <2>3. S!IsPrefix(host["trace"], Through("trace"))
    BY <2>2, PrefixOfWhole DEF Through
  <2>4. Replays(host["trace"])
    BY <2>2, <2>3, ReplaysOfPrefix DEF ReadInv
  <2> QED BY <2>4 DEF Replays, StderrIsReplayable
<1> QED BY <1>1, StreamInductive, ReadInductive, PTL
-----------------------------------------------------------------------------
(* The process reports what the machine counts: every byte delivered, and  *)
(* in the summary all bytes and all steps of the one run there is.         *)
CountInv ==
    /\ Len(sent) = delivered
    /\ stage \in BeforeLoad \cup {"load"} => steps = 0
    /\ runs = 1 /\ control = "host" =>
          summary.bytes_transmitted = delivered /\ summary.steps = steps

LEMMA RunCounts ==
    ASSUME MachineInv, OutputInv, Running, control' = "host"
    PROVE  summary'.bytes_transmitted = delivered' /\ summary'.steps = steps'
<1>1. FinishRun
  BY DEF Running, LoopEnds, RunStep, DrainAfterStep
<1>2. Drain /\ summary' = Summary /\ UNCHANGED steps
  BY <1>1 DEF FinishRun, cpuVars
<1>3. delivered' = delivered + Len(uart.tx)
  BY <1>2, DrainEffect
<1>4. uart.transmitted = delivered + Len(uart.tx)
  BY DEF OutputInv
<1> QED BY <1>2, <1>3, <1>4 DEF Summary

LEMMA CountStep ==
    ASSUME CliInv, StreamInv, CountInv, [CliNext]_vars
    PROVE  CountInv'
<1>0. PICK U : sent \in Seq(U) /\ Units \subseteq U
  BY RoomForUnits
<1>1. ASSUME UNCHANGED <<sent, delivered, steps, runs, control, summary>>,
             stage' \in BeforeLoad \cup {"load"} => stage \in BeforeLoad \cup {"load"}
      PROVE  CountInv'
  BY <1>1 DEF CountInv
<1>m. UNCHANGED machineVars => UNCHANGED <<delivered, steps, runs, control, summary>>
  BY DEF machineVars, cpuVars, runVars
<1>2. CASE Parse \/ Stat \/ FileChanges \/ ReadFails \/ UNCHANGED vars
  <2>1. UNCHANGED <<sent, machineVars>>
    BY <1>2 DEF Parse, Stat, FileChanges, ReadFails, vars, cliVars
  <2>2. stage \in BeforeLoad \/ UNCHANGED stage
    BY <1>2 DEF Parse, Stat, FileChanges, ReadFails, vars, cliVars, BeforeLoad
  <2> QED BY <1>1, <1>m, <2>1, <2>2
<1>3. CASE ReadImage
  <2>1. UNCHANGED <<sent, runVars, cpuVars>> /\ stage = "read"
    BY <1>3 DEF ReadImage, StartLoadElf
  <2> QED BY <1>1, <2>1 DEF cpuVars, runVars, BeforeLoad
<1>4. CASE Loading
  <2>1. /\ LoadElf /\ UNCHANGED <<sent, stage, runVars>> /\ stage = "load"
    BY <1>4 DEF Loading, LoadElf, cliVars
  <2>2. steps' = 0 \/ UNCHANGED steps
    BY <2>1, LoadElfEffect DEF Reset, cpuVars
  <2> QED BY <2>1, <2>2 DEF CountInv, runVars
<1>5. CASE Loaded
  <2>1. stage = "load" /\ stage' \notin BeforeLoad \cup {"load"} /\ UNCHANGED sent
    BY <1>5 DEF Loaded, BeforeLoad
  <2>2. CASE UNCHANGED machineVars
    BY <1>1, <1>m, <2>1, <2>2
  <2>3. CASE StartRun
    <3>1. control' = "loop" /\ UNCHANGED delivered
      BY <2>3 DEF StartRun
    <3> QED BY <2>1, <3>1 DEF CountInv
  <2> QED BY <1>5, <2>2, <2>3 DEF Loaded
<1>6. CASE RunFirmware
  <2>1. /\ stage' \in {"run", "flush"} /\ Running /\ MachineInv /\ OutputInv
        /\ WritesNothing \/ WritesByte \/ WritesLine
    BY <1>6, RunFirmwareEffect DEF RunFirmware, CliInv
  <2>2. Len(sent') = delivered'
    <3>1. CASE WritesByte
      <4>1. uart.tx \in Seq(U)
        <5>1. uart.tx \in Seq(Byte) /\ Byte \subseteq U
          BY <1>0, <3>1 DEF WritesByte, Units
        <5> QED BY <5>1, SeqMonotonic
      <4>2. Len(sent \o uart.tx) = Len(sent) + Len(uart.tx)
        BY <1>0, <4>1, ConcatOf
      <4> QED BY <3>1, <4>2 DEF WritesByte, CountInv
    <3>2. CASE WritesNothing \/ WritesLine
      BY <3>2 DEF WritesNothing, WritesLine, CountInv
    <3> QED BY <2>1, <3>1, <3>2
  <2>3. control' = "host" => summary'.bytes_transmitted = delivered' /\ summary'.steps = steps'
    BY <2>1, RunCounts
  <2> QED BY <2>1, <2>2, <2>3 DEF CountInv, BeforeLoad
<1>7. CASE Flush \/ DropSink \/ Report \/ ReportFault \/ Complain
  <2>1. /\ UNCHANGED <<sent, machineVars>>
        /\ stage' \notin BeforeLoad \cup {"load"}
    BY <1>7 DEF Flush, FlushOrLeave, DropSink, DropWriter, Report, ReportFault, Complain, Exit,
       BeforeLoad
  <2> QED BY <1>1, <1>m, <2>1
<1> QED BY <1>2, <1>3, <1>4, <1>5, <1>6, <1>7 DEF CliNext, Process

LEMMA CountInductive == CliSpec => []CountInv
<1>1. CliInit => CountInv
  <2> SUFFICES ASSUME CliInit PROVE CountInv
    OBVIOUS
  <2>1. sent = <<>> /\ delivered = 0 /\ runs = 0 /\ steps = 0
    BY DEF CliInit, MachineInit, CpuNew
  <2> QED BY <2>1, EmptySeq DEF CountInv
<1> QED BY <1>1, CountStep, CliInductive, StreamInductive, PTL DEF CliSpec

(* The numbers that the trace has lines for. *)
Numbers(units) == {units[k].step : k \in Objects(units)}

LEMMA NumbersThenMessage ==
    ASSUME NEW U, NEW s \in Seq(U), NEW message \in U, "about" \in DOMAIN message
    PROVE  Numbers(Append(s, message)) = Numbers(s)
<1> DEFINE t == Append(s, message)
<1>1. /\ Len(s) \in Nat /\ DOMAIN s = 1 .. Len(s) /\ DOMAIN t = 1 .. Len(s) + 1
      /\ t[Len(s) + 1] = message /\ \A k \in 1 .. Len(s) : t[k] = s[k]
  <2>1. /\ t \in Seq(U) /\ Len(t) = Len(s) + 1
        /\ \A k \in 1 .. Len(s) : t[k] = s[k]
        /\ t[Len(s) + 1] = message
    BY AppendProperties
  <2> QED BY <2>1, LenProperties
<1> HIDE DEF t
<1>2. \A k \in Objects(t) : k \in Objects(s) /\ t[k] = s[k]
  BY <1>1 DEF Objects
<1>3. \A k \in Objects(s) : k \in Objects(t) /\ t[k] = s[k]
  BY <1>1 DEF Objects
<1>4. Numbers(t) = Numbers(s)
  BY <1>2, <1>3 DEF Numbers
<1> QED BY <1>4 DEF t

LEMMA NumbersThenLine ==
    ASSUME NEW U, NEW s \in Seq(U), NEW first \in U, NEW second \in U,
           "about" \notin DOMAIN first, first.object, ~ second.object
    PROVE  Numbers(s \o <<first, second>>) = Numbers(s) \cup {first.step}
<1> DEFINE t == s \o <<first, second>>
<1>1. /\ Len(s) \in Nat /\ DOMAIN s = 1 .. Len(s) /\ DOMAIN t = 1 .. Len(s) + 2
      /\ \A k \in 1 .. Len(s) : t[k] = s[k]
      /\ t[Len(s) + 1] = first /\ t[Len(s) + 2] = second
  <2> DEFINE u == <<first, second>>
  <2>1. Len(u) = 2 /\ u[1] = first /\ u[2] = second
    OBVIOUS
  <2>0. u \in Seq(U)
    OBVIOUS
  <2> HIDE DEF u
  <2>2. /\ s \o u \in Seq(U) /\ Len(s \o u) = Len(s) + Len(u)
        /\ \A i \in 1 .. Len(s) + Len(u) :
              (s \o u)[i] = IF i <= Len(s) THEN s[i] ELSE u[i - Len(s)]
    BY <2>0, ConcatOf
  <2>3. Len(s) \in Nat /\ DOMAIN s = 1 .. Len(s) /\ DOMAIN (s \o u) = 1 .. Len(s \o u)
    BY <2>2, LenProperties
  <2>4. \A k \in 1 .. Len(s) : (s \o u)[k] = s[k]
    BY <2>1, <2>2, <2>3
  <2>5. (s \o u)[Len(s) + 1] = first /\ (s \o u)[Len(s) + 2] = second
    BY <2>1, <2>2, <2>3
  <2> QED BY <2>1, <2>2, <2>3, <2>4, <2>5 DEF u
<1> HIDE DEF t
<1>2. \A k \in Objects(t) : (k \in Objects(s) /\ t[k] = s[k]) \/ t[k] = first
  <2>1. \A k \in DOMAIN t : k \in 1 .. Len(s) \/ k = Len(s) + 1 \/ k = Len(s) + 2
    BY <1>1
  <2> QED BY <1>1, <2>1 DEF Objects
<1>3. \A k \in Objects(s) : k \in Objects(t) /\ t[k] = s[k]
  BY <1>1 DEF Objects
<1>4. Len(s) + 1 \in Objects(t)
  BY <1>1 DEF Objects
<1>5. Numbers(t) \subseteq Numbers(s) \cup {first.step}
  BY <1>2 DEF Numbers
<1>6. Numbers(s) \subseteq Numbers(t) /\ first.step \in Numbers(t)
  BY <1>1, <1>3, <1>4 DEF Numbers
<1>7. Numbers(t) = Numbers(s) \cup {first.step}
  BY <1>5, <1>6
<1> QED BY <1>7 DEF t
-----------------------------------------------------------------------------
(* Unless a stream may refuse a write and take a later one: the trace on   *)
(* its way or out has a line for each step, until stderr is closed; from   *)
(* then on some line is stuck in the buffer, and the flush cannot succeed. *)
TraceComplete == Numbers(Through("trace")) = 1 .. steps
TraceStuck == "trace" \in closed /\ buffer["trace"] # <<>>

CompleteInv ==
    ~ retryable /\ args = "run_trace" =>
        /\ stage \in {"run", "flush", "flush_trace"} => TraceComplete \/ TraceStuck
        /\ stage \in {"report", "report_fault"} => TraceComplete
        /\ stage = "exit" /\ runs = 1 /\ exit \in {OK, BUDGET, FAULT} => TraceComplete

LEMMA CompleteStep ==
    ASSUME CliInv, StreamInv, TraceInv, CountInv, CompleteInv, [CliNext]_vars
    PROVE  CompleteInv'
<1>0. PICK U : StreamsIn(U) /\ sent \in Seq(U) /\ Units \subseteq U
  BY RoomForUnits
<1>1. /\ "trace" \in Stream /\ "uart" \in Stream
      /\ host["trace"] \in Seq(U) /\ buffer["trace"] \in Seq(U) /\ Through("trace") \in Seq(U)
  BY <1>0, ConcatOf DEF Stream, StreamsIn, Through
<1>2. ASSUME NEW s \in Stream PROVE CAPACITY[s] \in Nat /\ Len(buffer[s]) <= CAPACITY[s]
  BY Capacity DEF StreamInv
<1>s. UNCHANGED <<args, retryable>>
  BY DEF CliNext, Process, Parse, Stat, FileChanges, ReadFails, ReadImage, Loading, Loaded,
     RunFirmware, Flush, FlushOrLeave, DropSink, DropWriter, Report, ReportFault, Complain,
     given, cliVars, vars
<1> SUFFICES ASSUME ~ retryable, args = "run_trace"
             PROVE  /\ stage' \in {"run", "flush", "flush_trace"} =>
                          TraceComplete' \/ TraceStuck'
                    /\ stage' \in {"report", "report_fault"} => TraceComplete'
                    /\ stage' = "exit" /\ runs' = 1 /\ exit' \in {OK, BUDGET, FAULT} =>
                          TraceComplete'
  BY <1>s DEF CompleteInv
<1>3. ASSUME Through("trace")' = Through("trace"), UNCHANGED steps, TraceComplete
      PROVE  TraceComplete'
  BY <1>3 DEF TraceComplete
<1>4. ASSUME OnlyStream("uart") \/ UNCHANGED <<host, buffer>>
      PROVE  Through("trace")' = Through("trace") /\ buffer'["trace"] = buffer["trace"]
  BY <1>1, <1>4 DEF OnlyStream, Through
<1>5. ASSUME OnlyStream("uart") \/ UNCHANGED <<host, buffer>>, closed \subseteq closed',
             UNCHANGED steps, TraceComplete \/ TraceStuck
      PROVE  TraceComplete' \/ TraceStuck'
  BY <1>3, <1>4, <1>5 DEF TraceStuck
<1>6. CASE UNCHANGED vars
  <2>1. UNCHANGED <<host, buffer, closed, stage, exit, steps, runs>>
    BY <1>6 DEF vars, cliVars, machineVars, cpuVars, runVars
  <2> QED BY <1>3, <1>4, <1>5, <2>1 DEF CompleteInv
<1>7. CASE Parse \/ Stat \/ FileChanges \/ ReadFails \/ ReadImage \/ Loading
  <2>1. stage' \in BeforeLoad \cup {"load", "complain"} \/ (stage = "parse" /\ UNCHANGED runs)
    <3>1. FileChanges \/ Loading => stage' = stage /\ stage \in {"read", "load"}
      BY DEF FileChanges, Loading, cliVars
    <3> QED BY <1>7, <3>1 DEF Parse, Stat, ReadFails, ReadImage, BeforeLoad, machineVars, runVars
  <2>2. stage = "parse" => runs = 0
    BY DEF CliInv, StageInv, BeforeLoad
  <2>3. stage = "parse" => stage' \notin {"run", "flush", "flush_trace", "report", "report_fault"}
    BY <1>7 DEF Parse, Stat, FileChanges, ReadFails, ReadImage, Loading, Exit
  <2> QED BY <2>1, <2>2, <2>3 DEF BeforeLoad
<1>8. CASE Loaded
  <2>1. stage = "load" /\ stage' \in {"run", "complain"} /\ UNCHANGED <<host, buffer>>
    BY <1>8, ElsewhereKeepsStreams DEF Loaded, Elsewhere
  <2>2. Through("trace") = <<>>
    <3>1. host["trace"] = <<>> /\ buffer["trace"] = <<>> /\ <<>> \in Seq({})
      BY <2>1, EmptySeq DEF TraceInv
    <3> QED BY <3>1, ThroughWhenEmpty DEF Through
  <2>3. Through("trace")' = <<>>
    BY <1>4, <2>1, <2>2
  <2>4. stage' = "run" => steps' = 0
    BY <1>8, <2>1 DEF Loaded, StartRun, cpuVars, CountInv
  <2>5. Numbers(Through("trace"))' = {}
    BY <2>3 DEF Numbers, Objects
  <2> QED BY <2>1, <2>4, <2>5 DEF TraceComplete
<1>9. CASE RunFirmware
  <2>1. /\ stage = "run" /\ stage' \in {"run", "flush"}
        /\ WritesNothing \/ WritesByte \/ WritesLine
    BY <1>9, RunFirmwareEffect
  <2>2. TraceComplete \/ TraceStuck
    BY <2>1 DEF CompleteInv
  <2>3. CASE WritesNothing
    BY <1>5, <2>1, <2>2, <2>3 DEF WritesNothing
  <2>4. CASE WritesByte
    <3>1. uart.tx \in Seq(U) /\ Len(uart.tx) <= CAPACITY["uart"]
      <4>1. uart.tx \in Seq(Byte) /\ Len(uart.tx) = 1 /\ Byte \subseteq U
        BY <1>0, <2>4 DEF WritesByte, Units
      <4> QED BY <4>1, <1>1, <1>2, Capacity, SeqMonotonic
    <3>2. OnlyStream("uart") /\ closed \subseteq closed'
      BY <1>0, <1>1, <1>2, <2>4, <3>1, WriteEffect DEF WritesByte
    <3> QED BY <1>5, <2>1, <2>2, <2>4, <3>2 DEF WritesByte
  <2>5. CASE WritesLine
    <3> DEFINE all == Through("trace")
               obj == Line(StepEvent)[1]
               end == Newline
               line == Line(StepEvent)
               m == steps
    <3>1. line \in Seq(U) /\ Len(line) <= CAPACITY["trace"]
      <4>1. line \in Seq(Units) /\ Len(line) = 2
        BY LineIsTwoUnits
      <4> QED BY <4>1, <1>0, <1>1, <1>2, Capacity, SeqMonotonic
    <3>2. /\ closed \subseteq closed'
          /\ ("trace" \in closed => (buffer["trace"] # <<>> => buffer'["trace"] # <<>>))
          /\ \/ all' = all \o line
             \/ all' = all /\ buffer'["trace"] # <<>> /\ (retryable \/ "trace" \in closed')
      BY <1>0, <1>1, <1>2, <2>5, <3>1, WriteEffect DEF WritesLine
    <3>3. CASE TraceStuck
      BY <2>1, <3>2, <3>3 DEF TraceStuck
    <3>4. CASE buffer'["trace"] # <<>> /\ (retryable \/ "trace" \in closed')
      BY <2>1, <3>4 DEF TraceStuck
    <3>5. CASE TraceComplete /\ all' = all \o line
      <4>1. line = <<obj, end>> /\ obj \in U /\ end \in U /\ steps' = m + 1 /\ m \in Nat
        BY <1>0, <2>5 DEF Line, Units, WritesLine, CliInv, MachineInv, MachineTypeOK, CpuTypeOK
      <4>2. "about" \notin DOMAIN obj /\ obj.object /\ obj.step = m + 1 /\ ~ end.object
        BY <4>1 DEF Line, StepEvent, Newline
      <4>3. all \in Seq(U) /\ all' = all \o line /\ Numbers(all) = 1 .. m
        BY <1>1, <3>5 DEF TraceComplete
      <4> HIDE DEF all, obj, end, line, m
      <4>4. Numbers(all \o <<obj, end>>) = Numbers(all) \cup {obj.step}
        BY <4>1, <4>2, <4>3, NumbersThenLine
      <4>5. Numbers(all') = (1 .. m) \cup {m + 1}
        BY <4>1, <4>2, <4>3, <4>4
      <4>6. (1 .. m) \cup {m + 1} = 1 .. m + 1
        BY <4>1
      <4>7. TraceComplete'
        BY <4>1, <4>5, <4>6 DEF TraceComplete, all
      <4> QED BY <2>1, <4>7
    <3> QED BY <2>2, <3>2, <3>3, <3>4, <3>5
  <2> QED BY <2>1, <2>3, <2>4, <2>5
<1>10. CASE FlushOrLeave("uart", "flush", "flush_trace")
  <2>1. PICK k \in Prefixes("uart") :
            /\ FlushBuf("uart", k, Left("uart", k))
            /\ stage = "flush" /\ stage' \in {"flush_trace", "drop_uart"}
    BY <1>10 DEF FlushOrLeave
  <2>2. OnlyStream("uart") /\ closed \subseteq closed'
    BY <1>0, <1>1, <2>1, FlushEffect
  <2>3. UNCHANGED steps /\ (TraceComplete \/ TraceStuck)
    BY <1>10, <2>1 DEF FlushOrLeave, machineVars, cpuVars, CompleteInv
  <2> QED BY <1>5, <2>1, <2>2, <2>3
<1>11. CASE FlushOrLeave("trace", "flush_trace", "report")
  <2>1. PICK k \in Prefixes("trace") :
            /\ FlushBuf("trace", k, Left("trace", k)) /\ stage = "flush_trace"
            /\ stage' = IF Taken("trace", k) THEN "report" ELSE "drop_uart"
    BY <1>11 DEF FlushOrLeave
  <2>2. /\ Through("trace")' = Through("trace")
        /\ (Taken("trace", k) => ("trace" \in closed => buffer["trace"] = <<>>))
    BY <1>0, <1>1, <2>1, FlushEffect
  <2>3. UNCHANGED steps /\ (TraceComplete \/ TraceStuck)
    BY <1>11, <2>1 DEF FlushOrLeave, machineVars, cpuVars, CompleteInv
  <2>4. CASE Taken("trace", k)
    <3>1. TraceComplete
      BY <2>2, <2>3, <2>4 DEF TraceStuck
    <3>2. TraceComplete'
      BY <1>3, <2>2, <2>3, <3>1
    <3> QED BY <2>1, <2>4, <3>2
  <2> QED BY <2>1, <2>4
<1>12. CASE DropSink
  <2>1. stage' \in {"drop_trace", "complain"}
    BY <1>12 DEF DropSink, DropWriter
  <2> QED BY <2>1
<1>13. CASE Report \/ ReportFault
  <2>1. /\ stage \in {"report", "report_fault"} /\ stage' \in {"report_fault", "exit"}
        /\ UNCHANGED steps
    BY <1>13 DEF Report, ReportFault, Exit, machineVars, cpuVars
  <2>2. TraceComplete
    BY <2>1 DEF CompleteInv
  <2>3. PICK about \in {"summary", "fault", "error"} : Eprintln(Message(about))
    BY <1>13 DEF Report, ReportFault
  <2>4. PICK V :
        /\ Through("trace") \in Seq(V) /\ Units \subseteq V
        /\ \/ Through("trace")' = Through("trace")
           \/ \E other \in {"summary", "fault", "error"} :
                 Through("trace")' = Append(Through("trace"), Message(other))
    <3>1. ~ RunFirmware /\ ~ DropWriter("trace", "drop_trace", "complain")
      BY <2>1 DEF RunFirmware, DropWriter
    <3> QED BY <3>1, TraceMoves
  <2>5. Numbers(Through("trace")') = Numbers(Through("trace"))
    <3> DEFINE all == Through("trace")
    <3>1. CASE all' = all
      BY <3>1
    <3>2. ASSUME NEW other \in {"summary", "fault", "error"}, all' = Append(all, Message(other))
          PROVE  Numbers(all') = Numbers(all)
      <4>1. Message(other) \in V /\ "about" \in DOMAIN Message(other) /\ all \in Seq(V)
        BY <2>4 DEF Units, Message
      <4> HIDE DEF all
      <4> QED BY <3>2, <4>1, NumbersThenMessage
    <3> QED BY <2>4, <3>1, <3>2
  <2>6. TraceComplete'
    BY <2>1, <2>2, <2>5 DEF TraceComplete
  <2> QED BY <2>1, <2>6
<1>14. CASE Complain
  <2>1. stage' = "exit" /\ exit' \in {USAGE, Panic}
    BY <1>14 DEF Complain, Exit
  <2> QED BY <2>1 DEF OK, BUDGET, FAULT, USAGE, Panic
<1> QED BY <1>6, <1>7, <1>8, <1>9, <1>10, <1>11, <1>12, <1>13, <1>14 DEF CliNext, Process, Flush

LEMMA CompleteInductive == CliSpec => []CompleteInv
<1>1. CliInit => CompleteInv
  BY DEF CliInit, CompleteInv
<1> QED BY <1>1, CompleteStep, CliInductive, StreamInductive, TraceInductive, CountInductive,
        PTL DEF CliSpec

(* The summary and the exit code stand on what has come out before them:   *)
(* every byte and, if asked for, a line for every step.                    *)
THEOREM SummaryHasProof == CliSpec => []SummaryIsBorneOut
<1>1. /\ CliInv /\ StreamInv /\ TraceInv /\ CountInv /\ CompleteInv
      /\ OutputIsExactUnlessReported
      => SummaryIsBorneOut
  <2> SUFFICES ASSUME CliInv, StreamInv, TraceInv, CountInv, CompleteInv,
                      OutputIsExactUnlessReported,
                      ~ retryable, RunEnded, exit \in {OK, BUDGET, FAULT}
               PROVE  /\ Len(host["uart"]) = summary.bytes_transmitted
                      /\ args = "run_trace" =>
                            {host["trace"][k].step : k \in Objects(host["trace"])}
                                = 1 .. summary.steps
    BY DEF SummaryIsBorneOut
  <2>1. stage = "exit" /\ control = "host" /\ runs = 1
    BY DEF RunEnded, CliInv, StageInv, MachineInv, MachineTypeOK
  <2>2. host["uart"] = sent /\ Len(sent) = summary.bytes_transmitted /\ summary.steps = steps
    BY <2>1 DEF OutputIsExactUnlessReported, CountInv
  <2>3. args = "run_trace" => TraceComplete
    BY <2>1 DEF CompleteInv
  <2>4. Through("trace") = host["trace"]
    <3>1. PICK U : StreamsIn(U)
      BY DEF StreamInv
    <3>2. host["trace"] \in Seq(U) /\ buffer["trace"] = <<>>
      BY <2>1, <3>1 DEF StreamsIn, Stream, TraceInv
    <3> QED BY <3>2, ThroughWhenEmpty DEF Through
  <2> QED BY <2>2, <2>3, <2>4 DEF TraceComplete, Numbers
<1> QED BY <1>1, CliInductive, StreamInductive, TraceInductive, CountInductive,
        CompleteInductive, OutputIsExact, PTL
-----------------------------------------------------------------------------
(* The command leaves the machine what it is: all that holds of a machine  *)
(* whatever its host does holds of this one.                               *)
GuestInv == CliInv /\ BudgetInv /\ TraceIsReplayable /\ ToldInv

LEMMA GuestInductive == CliSpec => []GuestInv
<1>1. MachineInit => BudgetInv /\ TraceIsReplayable /\ ToldInv
  <2> SUFFICES ASSUME MachineInit PROVE BudgetInv /\ TraceIsReplayable /\ ToldInv
    OBVIOUS
  <2>1. DOMAIN log = {} /\ control = "host" /\ steps = 0
    BY DEF MachineInit, CpuNew
  <2> QED BY <2>1 DEF BudgetInv, BudgetIsRespected, TraceIsReplayable, ToldInv,
             OutputFollowsTrace, WaitingIsTold, Lines
<1>2. CliInit => GuestInv
  BY <1>1, CliInitStage DEF CliInit, GuestInv
<1>3. ASSUME GuestInv, [CliNext]_vars
      PROVE  GuestInv'
  <2>1. CliInv' /\ [MachineNext]_machineVars
    BY <1>3, CliStepStage, ProcessStepsMachine DEF GuestInv
  <2>2. MachineInv /\ OutputInv /\ LogInv /\ BudgetInv /\ TraceIsReplayable /\ ToldInv
    BY <1>3 DEF GuestInv, CliInv
  <2> QED BY <2>1, <2>2, BudgetStep, ReplayStep, ToldStep DEF GuestInv
<1> QED BY <1>2, <1>3, PTL DEF CliSpec

(* In the command too, whatever becomes of its streams: output is conserved *)
(* and accounted for, the budget is kept to and the run can be replayed.   *)
THEOREM MachineInTheCommand ==
    CliSpec => [](/\ OutputIsConserved /\ PendingIsOneInstructionsWorth
                  /\ BudgetIsRespected /\ TraceIsReplayable /\ OutputFollowsTrace)
<1>1. GuestInv => /\ OutputIsConserved /\ PendingIsOneInstructionsWorth
                  /\ BudgetIsRespected /\ TraceIsReplayable /\ OutputFollowsTrace
  <2> SUFFICES ASSUME GuestInv
               PROVE  /\ OutputIsConserved /\ PendingIsOneInstructionsWorth
                      /\ BudgetIsRespected /\ TraceIsReplayable /\ OutputFollowsTrace
    OBVIOUS
  <2>1. MachineInv /\ OutputInv /\ BudgetInv /\ TraceIsReplayable /\ ToldInv
    BY DEF GuestInv, CliInv
  <2>2. Len(uart.tx) \in Nat /\ owed \in Nat
    BY <2>1, LenType DEF MachineInv, MachineTypeOK
  <2>3. Len(uart.tx) <= owed + (IF control = "drain" THEN 1 ELSE 0)
    BY <2>1, <2>2 DEF OutputInv
  <2> QED BY <2>1, <2>3 DEF OutputInv, OutputIsConserved, PendingIsOneInstructionsWorth,
             BudgetInv, ToldInv
<1> QED BY <1>1, GuestInductive, PTL
-----------------------------------------------------------------------------
(* A process none of whose writes is refused comes to the error exit only  *)
(* before the run, and ends a run with the code of its summary.            *)
Unrefused == ~ retryable /\ closed = {}

UnrefusedInv ==
    Unrefused =>
        /\ stage \notin {"drop_uart", "drop_trace"}
        /\ stage = "complain" => runs = 0
        /\ stage = "exit" /\ runs = 1 => exit = ExitCode(summary.halt_reason)

(* A stream that has been closed stays so. *)
LEMMA ClosedStaysClosed ==
    ASSUME [CliNext]_vars
    PROVE  UNCHANGED retryable /\ (Unrefused' => Unrefused)
<1>1. UNCHANGED retryable
  BY DEF CliNext, Process, Parse, Stat, FileChanges, ReadFails, ReadImage, Loading, Loaded,
     RunFirmware, Flush, FlushOrLeave, DropSink, DropWriter, Report, ReportFault, Complain, given,
     cliVars, vars
<1>2. ASSUME NEW s, NEW k, NEW rest, FlushBuf(s, k, rest) PROVE closed \subseteq closed'
  BY <1>2 DEF FlushBuf, Refuses
<1>3. ASSUME NEW s, NEW units, WriteAll(s, units) PROVE closed \subseteq closed'
  BY <1>2, <1>3 DEF WriteAll
<1>4. ASSUME NEW event, Observe(event) PROVE closed \subseteq closed'
  BY <1>3, <1>4 DEF Observe
<1>5. ASSUME NEW message, Eprintln(message) PROVE closed \subseteq closed'
  BY <1>5 DEF Eprintln, Refuses
<1>6. closed \subseteq closed'
  <2>1. CASE Elsewhere
    BY <2>1, ElsewhereKeepsStreams
  <2>2. CASE RunFirmware
    BY <1>4, <2>2 DEF RunFirmware
  <2>3. CASE Flush \/ DropSink
    BY <1>2, <2>3 DEF Flush, FlushOrLeave, DropSink, DropWriter
  <2>4. CASE Report \/ ReportFault \/ Complain
    BY <1>5, <2>4 DEF Report, ReportFault, Complain
  <2> QED BY <2>1, <2>2, <2>3, <2>4 DEF CliNext, Process, Elsewhere
<1> QED BY <1>1, <1>6 DEF Unrefused

(* A message that is not refused has been printed. *)
LEMMA PrintedUnlessRefused ==
    ASSUME StreamInv, NEW message, Eprintln(message), Unrefused'
    PROVE  Printed \/ retryable
<1> SUFFICES ASSUME ~ retryable PROVE Printed
  OBVIOUS
<1>1. host' = [host EXCEPT !["trace"] = Append(@, message)]
  BY DEF Eprintln, Refuses, Unrefused
<1>2. PICK U : StreamsIn(U)
  BY DEF StreamInv
<1>3. host["trace"] \in Seq(U) /\ host'["trace"] = Append(host["trace"], message)
  BY <1>1, <1>2 DEF StreamsIn, Stream
<1> DEFINE h == host["trace"]
<1>4. ASSUME NEW V, NEW g \in Seq(V) PROVE Append(g, message) # g
  <2>1. g \in Seq(V \cup {message})
    BY SeqMonotonic
  <2>2. Len(Append(g, message)) = Len(g) + 1 /\ Len(g) \in Nat
    BY <2>1, AppendProperties, LenProperties
  <2>3. \A n \in Nat : n + 1 # n
    OBVIOUS
  <2> QED BY <2>2, <2>3, Zenon
<1>5. host'["trace"] # host["trace"]
  BY <1>3, <1>4
<1> QED BY <1>5 DEF Printed

LEMMA UnrefusedStep ==
    ASSUME CliInv, StreamInv, UnrefusedInv, [CliNext]_vars
    PROVE  UnrefusedInv'
<1> SUFFICES ASSUME Unrefused'
             PROVE  /\ stage' \notin {"drop_uart", "drop_trace"}
                    /\ stage' = "complain" => runs' = 0
                    /\ stage' = "exit" /\ runs' = 1 => exit' = ExitCode(summary'.halt_reason)
  BY DEF UnrefusedInv
<1>1. /\ ~ retryable /\ closed = {} /\ closed' = {}
      /\ stage \notin {"drop_uart", "drop_trace"}
      /\ stage = "complain" => runs = 0
      /\ stage = "exit" /\ runs = 1 => exit = ExitCode(summary.halt_reason)
  BY ClosedStaysClosed DEF Unrefused, UnrefusedInv
<1>2. stage \in BeforeLoad \cup {"load"} => runs = 0
  BY DEF CliInv, StageInv
<1>m. UNCHANGED machineVars => UNCHANGED <<runs, summary>>
  BY DEF machineVars, runVars
<1>3. CASE Parse
  BY <1>2, <1>3, <1>m DEF Parse, Exit, BeforeLoad
<1>4. CASE Stat \/ ReadFails \/ FileChanges
  BY <1>2, <1>4, <1>m DEF Stat, ReadFails, FileChanges, BeforeLoad
<1>5. CASE ReadImage
  BY <1>5 DEF ReadImage
<1>6. CASE Loading
  BY <1>6 DEF Loading, cliVars
<1>7. CASE Loaded
  BY <1>2, <1>7, <1>m DEF Loaded
<1>8. CASE RunFirmware
  BY <1>8, RunFirmwareEffect
<1>9. CASE Flush
  <2>1. ASSUME NEW s, NEW from, NEW to, FlushOrLeave(s, from, to) PROVE stage' = to
    BY <1>1, <2>1 DEF FlushOrLeave, FlushBuf, Refuses
  <2> QED BY <1>9, <2>1 DEF Flush
<1>10. CASE DropSink
  BY <1>1, <1>10 DEF DropSink, DropWriter
<1>11. CASE Report
  <2>1. Printed
    BY <1>1, <1>11, PrintedUnlessRefused DEF Report
  <2>2. UNCHANGED summary
    BY <1>11, <1>m DEF Report
  <2> QED BY <1>11, <2>1, <2>2 DEF Report, Exit
<1>12. CASE ReportFault
  <2>1. Printed
    BY <1>1, <1>12, PrintedUnlessRefused DEF ReportFault
  <2>2. UNCHANGED summary
    BY <1>12, <1>m DEF ReportFault
  <2> QED BY <1>12, <2>1, <2>2 DEF ReportFault, Exit
<1>13. CASE Complain
  BY <1>1, <1>13, <1>m DEF Complain, Exit
<1>14. CASE UNCHANGED vars
  BY <1>1, <1>14, <1>m DEF vars, cliVars
<1> QED BY <1>3, <1>4, <1>5, <1>6, <1>7, <1>8, <1>9, <1>10, <1>11, <1>12, <1>13, <1>14
        DEF CliNext, Process

(* As long as no write is refused, the exit code of a run is the firmware's *)
(* own and everything it sent is out.                                      *)
THEOREM NothingIsHidden == CliSpec => []NothingRefusedNothingHidden
<1>1. CliInit => UnrefusedInv
  BY DEF CliInit, UnrefusedInv
<1>2. CliInv /\ UnrefusedInv /\ OutputIsExactUnlessReported => NothingRefusedNothingHidden
  <2> SUFFICES ASSUME CliInv, UnrefusedInv, OutputIsExactUnlessReported,
                      RunEnded, closed = {}, ~ retryable
               PROVE  /\ exit = CASE summary.halt_reason \in {"Returned", "SpinLoop"} -> OK
                                  [] summary.halt_reason = "StepBudgetExhausted" -> BUDGET
                                  [] summary.halt_reason \in Fault -> FAULT
                      /\ host["uart"] = sent
    BY DEF NothingRefusedNothingHidden
  <2>1. stage = "exit" /\ control = "host" /\ runs = 1
    BY DEF RunEnded, CliInv, StageInv, MachineInv, MachineTypeOK
  <2>2. summary.halt_reason \in HaltReason
    BY <2>1 DEF CliInv, StageInv
  <2>3. exit = ExitCode(summary.halt_reason)
    BY <2>1 DEF UnrefusedInv, Unrefused
  <2>4. exit \in {OK, BUDGET, FAULT}
    BY <2>2, <2>3 DEF ExitCode, IsClean, HaltReason
  <2>5. host["uart"] = sent
    BY <2>4 DEF OutputIsExactUnlessReported
  <2>6. "StepBudgetExhausted" \notin Fault \cup {"Returned", "SpinLoop"}
        /\ "Returned" \notin Fault /\ "SpinLoop" \notin Fault
    BY DEF Fault, ErrorKind
  <2> QED BY <2>2, <2>3, <2>5, <2>6 DEF ExitCode, IsClean, HaltReason
<1> QED BY <1>1, <1>2, UnrefusedStep, CliInductive, StreamInductive, OutputIsExact, PTL
        DEF CliSpec
=============================================================================
