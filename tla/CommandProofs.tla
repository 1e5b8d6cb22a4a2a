--------------------------- MODULE CommandProofs ---------------------------
(***************************************************************************)
(* For every set of options and batches: the preflight reports its first   *)
(* failure, leaves no client behind and comes before the load; in a JSON   *)
(* dry run no exported batch is torn; an exit status of 0 means all; and   *)
(* a process does finitely many steps, of which one is always possible     *)
(* before the end, or it waits for the collector.                          *)
(***************************************************************************)
EXTENDS Command, NumberInduction, SequenceTheorems, FiniteSetTheorems

Before == {"flags", "output", "create", "start", "upload", "stop", "stages"}
Passed == opts.dryRun \/ (client = "stopped" /\ faults = <<>>)

\* how far the preflight is, and what is known there of its client and faults
FlowInv ==
    /\ opts \in Options
    /\ pc \in Before \cup {"running", "summary", "exited"}
    /\ faults \in Seq({"create", "start", "export", "stop"})
    /\ err = (IF faults = <<>> THEN "none" ELSE faults[1])
    /\ pc \in {"flags", "output", "create"} => client = "none"
    /\ pc = "start" => client = "created"
    /\ pc \in {"upload", "stop"} <=> client = "started"
    /\ pc \in {"flags", "output", "create", "start", "upload"} => faults = <<>>
    /\ opts.dryRun => client = "none" /\ pc \notin {"create", "start", "upload", "stop"}
    /\ pc \in {"stages", "running", "summary"} => Passed
    /\ (\E b \in Batches : life[b] # "none") => pc \notin Before /\ Passed

LEMMA FlowInit == Init => FlowInv
BY DEF Init, FlowInv, Before, Passed, Load!Init

\* the load run moves batches and leaves the preflight alone
LEMMA FlowRunning ==
    ASSUME FlowInv, Running
    PROVE  FlowInv'
BY DEF FlowInv, Running, Before, Passed, flow, preflight

LEMMA FlowStep ==
    ASSUME FlowInv, [Next]_vars
    PROVE  FlowInv'
<1> USE CommandAssumption DEF FlowInv, Before, Passed
<1>1. CASE CheckSettings
  BY <1>1 DEF CheckSettings, Exit, Goto, flow, preflight, out, load
<1>2. CASE CheckOutput
  BY <1>2 DEF CheckOutput, Exit, Goto, flow, preflight, out, load
<1>3. CASE CreateClient
  <2>1. CASE UNCHANGED client
    <3>1. /\ faults' = <<"create">> /\ err' = "create" /\ pc' = "exited"
          /\ UNCHANGED <<opts, life>> /\ pc = "create"
      BY <1>3, <2>1 DEF CreateClient, Fail, Exit, Goto, flow, load
    <3>2. faults' # <<>> /\ faults'[1] = "create"
      BY <3>1
    <3> QED
      BY <2>1, <3>1, <3>2
  <2>2. CASE client' = "created"
    BY <1>3, <2>2 DEF CreateClient, Fail, Exit, Goto, flow, load
  <2> QED
    BY <1>3, <2>1, <2>2 DEF CreateClient
<1>4. CASE StartClient
  <2>1. CASE UNCHANGED client
    <3>1. /\ faults' = <<"start">> /\ err' = "start" /\ pc' = "exited"
          /\ UNCHANGED <<opts, life>> /\ pc = "start"
      BY <1>4, <2>1 DEF StartClient, Fail, Exit, Goto, flow, load
    <3>2. faults' # <<>> /\ faults'[1] = "start"
      BY <3>1
    <3> QED
      BY <2>1, <3>1, <3>2
  <2>2. CASE client' = "started"
    BY <1>4, <2>2 DEF StartClient, Fail, Exit, Goto, flow, load
  <2> QED
    BY <1>4, <2>1, <2>2 DEF StartClient
<1>5. CASE Upload
  <2>1. /\ pc = "upload" /\ pc' = "stop" /\ faults = <<>>
        /\ UNCHANGED <<opts, client, life>>
    BY <1>5 DEF Upload, Goto, flow, load
  <2>2. CASE UNCHANGED <<err, faults>>
    BY <2>1, <2>2
  <2>3. CASE Fail("export")
    <3>1. faults' = <<"export">> /\ err' = "export"
      BY <2>1, <2>3 DEF Fail
    <3>2. faults' # <<>> /\ faults'[1] = "export"
      BY <3>1
    <3> QED
      BY <2>1, <3>1, <3>2
  <2> QED
    BY <1>5, <2>2, <2>3 DEF Upload
<1>6. CASE StopClient
  <2>1. /\ pc = "stop" /\ client' = "stopped" /\ UNCHANGED <<opts, life>>
        /\ pc' = IF err' = "none" THEN "stages" ELSE "exited"
    BY <1>6 DEF StopClient, Exit, Goto, flow, load
  <2>2. CASE UNCHANGED <<err, faults>>
    <3>1. faults # <<>> => faults[1] # "none"
      OBVIOUS
    <3> QED
      BY <2>1, <2>2, <3>1
  <2>3. CASE faults' = Append(faults, "stop") /\ err' = IF err = "none" THEN "stop" ELSE err
    <3>1. faults # <<>> => faults[1] # "none"
      OBVIOUS
    <3>2. faults' # <<>> /\ faults'[1] = IF faults = <<>> THEN "stop" ELSE faults[1]
      BY <2>3
    <3>3. faults' \in Seq({"create", "start", "export", "stop"})
      BY <2>3
    <3> QED
      BY <2>1, <2>3, <3>1, <3>2, <3>3
  <2> QED
    BY <1>6, <2>2, <2>3 DEF StopClient
<1>7. CASE LoadStages
  BY <1>7 DEF LoadStages, Exit, Goto, flow, preflight, out, load
<1>8. CASE PrintSummary
  BY <1>8 DEF PrintSummary, Exit, flow, preflight, load
<1>9. CASE Interrupt
  BY <1>9 DEF Interrupt, Exit, preflight, out, load
<1>10. CASE Expire
  BY <1>10 DEF Expire, flow, load
<1>11. CASE \E b \in Batches :
              RunStep(b) \/ Discard(b) \/ LockWriter(b) \/ WritePiece(b) \/ WriteEnds(b)
  BY <1>11, FlowRunning DEF RunStep, Discard, LockWriter, WritePiece, WriteEnds
<1>12. CASE \E b \in Batches : Answer(b)
  BY <1>12, FlowRunning DEF Answer
<1>13. CASE \E e \in {"none", "canceled", "stage", "init", "export"} : RunReturns(e)
  BY <1>13 DEF RunReturns, Goto, flow, preflight, Load!End
<1>14. CASE UNCHANGED vars
  BY <1>14 DEF vars, flow, preflight, load
<1> QED
  BY <1>1, <1>2, <1>3, <1>4, <1>5, <1>6, <1>7, <1>8, <1>9, <1>10, <1>11, <1>12, <1>13,
     <1>14 DEF Next, Program, Collector, Exited

THEOREM FlowInvariance == Spec => []FlowInv
BY FlowInit, FlowStep, PTL DEF Spec

\* The preflight's error is its first failure, whatever the collector, the clock and the
\* user do.
THEOREM FirstFaultWins == Spec => []FirstFaultReported
<1>1. FlowInv => FirstFaultReported
  BY DEF FlowInv, FirstFaultReported
<1> QED
  BY <1>1, FlowInvariance, PTL

\* No client that the preflight started outlives it.
THEOREM PreflightStops == Spec => []ClientStopped
<1>1. FlowInv => ClientStopped
  BY DEF FlowInv, ClientStopped
<1> QED
  BY <1>1, FlowInvariance, PTL

\* Nothing is generated before a preflight that passed, and a dry run makes no client.
THEOREM PreflightComesFirst == Spec => []PreflightFirst
<1>1. FlowInv => PreflightFirst
  BY CommandAssumption DEF FlowInv, PreflightFirst, Passed
<1> QED
  BY <1>1, FlowInvariance, PTL

\* a client is made of settings that were found valid
ClientInv == client # "none" => ~ClientInvalid(opts)

LEMMA ClientStep ==
    ASSUME FlowInv, ClientInv, [Next]_vars
    PROVE  ClientInv'
<1> USE DEF ClientInv
<1>1. CASE CreateClient
  BY <1>1 DEF CreateClient, flow
<1>2. CASE UNCHANGED opts /\ (client' # "none" => client # "none")
  BY <1>2
<1>3. CASE StartClient \/ StopClient
  <2>1. client # "none" /\ UNCHANGED opts
    BY <1>3 DEF StartClient, StopClient, FlowInv, flow
  <2> QED
    BY <2>1 DEF ClientInvalid, CAFlag, Insecure, Endpoint, Protocol
<1> QED
  BY <1>1, <1>2, <1>3
     DEF Next, Program, Collector, CheckSettings, CheckOutput, LoadStages, PrintSummary, Upload,
         Interrupt, Expire, Exited, RunStep, Discard, LockWriter, WritePiece, WriteEnds, Answer,
         RunReturns, Running, Exit, Goto, flow, preflight, vars

\* Whatever the flags and the environment, a client that speaks TLS is as secure as was
\* asked for, and it speaks TLS unless a variable asks the SDK for plain text.
THEOREM ClientIsSecure == Spec => []SecureAsAsked
<1>1. Init => ClientInv
  BY DEF Init, ClientInv
<1>2. FlowInv /\ ClientInv => SecureAsAsked
  <2> SUFFICES ASSUME FlowInv, ~ClientInvalid(opts), ~Insecure(opts) PROVE SecureAsAsked
    BY DEF ClientInv, SecureAsAsked
  <2>1. CAFlag(opts) = opts.ca /\ SkipFlag(opts) = opts.skip /\ opts.ca # "bad"
    <3>1. opts.skip \in BOOLEAN
      BY CommandAssumption DEF FlowInv
    <3> QED
      BY <3>1 DEF ClientInvalid, CAFlag, SkipFlag
  <2>2. opts.ca # "unset" => RootCA(opts) = "flag"
    BY <2>1 DEF RootCA
  <2>3. \A p \in ClientPair(opts) : p.cert = p.key
    BY DEF ClientPair, Pairs
  <2> DEFINE asked == [roots |-> RootCA(opts), pair |-> ClientPair(opts), skip |-> opts.skip]
  <2>4. TLSConfig(opts) = {asked} \ {HostTLS}
    BY <2>1 DEF TLSConfig
  <2>5. ASSUME opts.ca # "unset" \/ opts.skip
        PROVE  TLSConfig(opts) = {asked}
    <3>1. asked.roots = RootCA(opts) /\ asked.skip = opts.skip
      OBVIOUS
    <3>2. HostTLS.roots = "system" /\ HostTLS.skip = FALSE
      BY DEF HostTLS
    <3> HIDE DEF asked
    <3>3. asked # HostTLS
      BY <2>2, <2>5, <3>1, <3>2
    <3> QED
      BY <2>4, <3>3
  <2>6. ASSUME NEW tls \in ClientTLS(opts)
        PROVE  /\ opts.ca # "unset" => tls.roots = "flag"
               /\ tls.skip => opts.skip
               /\ \A p \in tls.pair : p.cert = p.key
    <3>1. tls = asked \/ (tls = HostTLS /\ TLSConfig(opts) = {})
      <4> HIDE DEF asked
      <4> QED
        BY <2>4, <2>6 DEF ClientTLS
    <3>2. CASE tls = asked
      BY <2>2, <2>3, <3>2
    <3>3. CASE tls = HostTLS /\ TLSConfig(opts) = {}
      <4>1. opts.ca = "unset" /\ ~opts.skip
        <5> HIDE DEF asked
        <5> QED
          BY <2>5, <3>3
      <4> QED
        BY <3>3, <4>1 DEF HostTLS
    <3> QED
      BY <3>1, <3>2, <3>3
  <2>7. ASSUME ClientTLS(opts) = {}
        PROVE  EnvPlain(opts) /\ (Protocol(opts) = "http" \/ (opts.ca = "unset" /\ ~opts.skip))
    <3>1. ~SpeaksTLS(opts)
      BY <2>7 DEF ClientTLS
    <3>2. EnvPlain(opts) /\ (Protocol(opts) = "http" \/ TLSConfig(opts) = {})
      BY <3>1 DEF SpeaksTLS
    <3> HIDE DEF asked
    <3> QED
      BY <2>5, <3>2
  <2> QED
    BY <2>1, <2>6, <2>7 DEF SecureAsAsked
<1> QED
  BY <1>1, <1>2, ClientStep, FlowInvariance, PTL DEF Spec

-----------------------------------------------------------------------------
(* The writer of a JSON dry run. *)

PieceSet == [of : Batches \cup {"summary"}, piece : 1 .. Pieces]
Untouched(b) == \A i \in DOMAIN stdout : stdout[i].of # b
Line(b) == \E i \in DOMAIN stdout : WholeAt(i, b)
Begun(b) ==
    /\ Written(b) = 1 /\ stdout # <<>>
    /\ stdout[Len(stdout)] = [of |-> b, piece |-> 1]

\* one batch at most is being written, the last one on the stream; a batch not yet begun
\* has left nothing there, and one that was exported is whole
WriteInv ==
    /\ stdout \in Seq(PieceSet)
    /\ life \in [Batches -> Load!Lives]
    /\ writing \subseteq Batches /\ \A b, c \in writing : b = c
    /\ writing # {} => pc = "running" /\ JSON
    /\ \A b \in writing :
          /\ life[b] = "exporting"
          /\ Untouched(b) \/ Begun(b) \/ (Written(b) = 2 /\ Line(b))
    /\ JSON =>
          /\ \A i \in DOMAIN stdout : stdout[i].of \in Batches
          /\ \A b \in Batches :
                /\ life[b] \in {"none", "queued", "exporting"} /\ b \notin writing
                   => Untouched(b)
                /\ life[b] \in {"ok", "countedOk"} => Line(b)

LEMMA UntouchedWritten ==
    ASSUME NEW b \in Batches, Untouched(b)
    PROVE  Written(b) = 0
<1>1. {i \in DOMAIN stdout : stdout[i].of = b} = {}
  BY DEF Untouched
<1> QED
  BY <1>1, FS_EmptySet DEF Written

\* a further piece is counted, and is the last one
LEMMA WrittenGrows ==
    ASSUME stdout \in Seq(PieceSet), NEW b \in Batches, NEW n \in 1 .. Pieces,
           stdout' = Append(stdout, [of |-> b, piece |-> n])
    PROVE  Written(b)' = Written(b) + 1 /\ Written(b) \in Nat
<1> DEFINE I == {i \in DOMAIN stdout : stdout[i].of = b}
<1>1. I \subseteq 1 .. Len(stdout) /\ Len(stdout) \in Nat
  OBVIOUS
<1>2. IsFiniteSet(I)
  BY <1>1, FS_Interval, FS_Subset
<1>3. {i \in DOMAIN stdout' : stdout'[i].of = b} = I \cup {Len(stdout) + 1}
  OBVIOUS
<1>4. Len(stdout) + 1 \notin I
  BY <1>1
<1> QED
  BY <1>2, <1>3, <1>4, FS_AddElement, FS_CardinalityType DEF Written

\* what was written stays written
LEMMA LineStays ==
    ASSUME stdout \in Seq(PieceSet), NEW b, Line(b), NEW e, stdout' = Append(stdout, e)
    PROVE  Line(b)'
BY DEF Line, WholeAt, PieceAt, Pieces

LEMMA WriteInit == Init => WriteInv
BY DEF Init, WriteInv, Load!Init, Load!Lives, Load!InFlight, Untouched

\* a batch that is moved by the load run, the writer being left alone
LEMMA WriteMoved ==
    ASSUME WriteInv, UNCHANGED <<opts, pc, writing, stdout>>,
           NEW b \in Batches, NEW from, NEW to \in Load!Lives, Load!Move(b, from, to),
           b \notin writing,
           JSON => \/ to \in {"queued", "exporting"} /\ from \in {"none", "queued"}
                   \/ to \in {"countedFailed", "lost"}
                   \/ to = "countedOk" /\ from = "ok"
    PROVE  WriteInv'
<1>1. /\ life[b] = from /\ life' = [life EXCEPT ![b] = to] /\ life' \in [Batches -> Load!Lives]
      /\ \A c \in Batches : c # b => life'[c] = life[c]
      /\ life'[b] = to
  BY DEF WriteInv, Load!Move
<1>2. /\ JSON' = JSON
      /\ \A c : Untouched(c)' = Untouched(c) /\ Begun(c)' = Begun(c) /\ Line(c)' = Line(c)
      /\ \A c : Written(c)' = Written(c)
  BY DEF JSON, Untouched, Begun, Line, WholeAt, PieceAt, Written
<1> QED
  BY <1>1, <1>2 DEF WriteInv

\* a JSON dry run prints no summary on stdout
LEMMA JSONKeepsStdout ==
    ASSUME PrintSummary, JSON, stdout \in Seq(PieceSet)
    PROVE  UNCHANGED stdout
<1>1. stdout' = stdout \o [i \in 1 .. 0 |-> [of |-> "summary", piece |-> i]]
  BY DEF PrintSummary
<1>2. [i \in 1 .. 0 |-> [of |-> "summary", piece |-> i]] = <<>>
  OBVIOUS
<1> QED
  BY <1>1, <1>2

LEMMA WriteStep ==
    ASSUME WriteInv, [Next]_vars
    PROVE  WriteInv'
<1>1. CASE UNCHANGED <<opts, out, load>> /\ (pc = "running" => writing = {} \/ pc' = pc)
  <2>1. /\ JSON' = JSON
        /\ \A c : Untouched(c)' = Untouched(c) /\ Begun(c)' = Begun(c) /\ Line(c)' = Line(c)
        /\ \A c : Written(c)' = Written(c)
    BY <1>1 DEF JSON, Untouched, Begun, Line, WholeAt, PieceAt, Written, out
  <2> QED
    BY <1>1, <2>1 DEF WriteInv, out, load
<1>2. CASE \E b \in Batches : RunStep(b)
  <2> SUFFICES ASSUME NEW b \in Batches, RunStep(b) PROVE WriteInv'
    BY <1>2
  <2>1. UNCHANGED <<opts, pc, writing, stdout>>
    BY DEF RunStep, Running, flow, out
  <2>2. \E from \in {"none", "queued", "ok", "failed"} :
          \E to \in {"queued", "exporting", "countedOk", "countedFailed", "lost"} :
            /\ Load!Move(b, from, to)
            /\ \/ to \in {"queued", "exporting"} /\ from \in {"none", "queued"}
               \/ to \in {"countedFailed", "lost"}
               \/ to = "countedOk" /\ from = "ok"
    BY DEF RunStep, Load!Queue, Load!Export, Load!Tally, Load!Drop
  <2>3. b \notin writing
    BY <2>2 DEF WriteInv, Load!Move
  <2> QED
    BY <2>1, <2>2, <2>3, WriteMoved DEF Load!Lives, Load!InFlight
<1>3. CASE \E b \in Batches : Answer(b) \/ Discard(b)
  <2> SUFFICES ASSUME NEW b \in Batches, Answer(b) \/ Discard(b) PROVE WriteInv'
    BY <1>3
  <2>1. UNCHANGED <<opts, pc, writing, stdout>> /\ ~JSON
    BY DEF Answer, Discard, Running, flow, out, JSON
  <2>2. \E to \in {"ok", "failed"} : Load!Move(b, "exporting", to)
    BY DEF Answer, Discard, Load!Answer
  <2>3. b \notin writing
    BY <2>1 DEF WriteInv
  <2> QED
    BY <2>1, <2>2, <2>3, WriteMoved DEF Load!Lives, Load!InFlight
<1>4. CASE \E b \in Batches : LockWriter(b)
  <2> SUFFICES ASSUME NEW b \in Batches, LockWriter(b) PROVE WriteInv'
    BY <1>4
  <2>1. /\ UNCHANGED <<opts, pc, stdout, life>> /\ writing = {} /\ writing' = {b}
        /\ pc = "running" /\ JSON /\ life[b] = "exporting"
    BY DEF LockWriter, LockFree, Running, flow, load
  <2>2. Untouched(b)
    BY <2>1 DEF WriteInv
  <2>3. /\ JSON' = JSON
        /\ \A c : Untouched(c)' = Untouched(c) /\ Begun(c)' = Begun(c) /\ Line(c)' = Line(c)
        /\ \A c : Written(c)' = Written(c)
    BY <2>1 DEF JSON, Untouched, Begun, Line, WholeAt, PieceAt, Written
  <2> QED
    BY <2>1, <2>2, <2>3 DEF WriteInv
<1>5. CASE \E b \in Batches : WritePiece(b)
  <2> SUFFICES ASSUME NEW b \in Batches, WritePiece(b) PROVE WriteInv'
    BY <1>5
  <2> DEFINE n == Written(b) + 1
  <2>1. /\ UNCHANGED <<opts, pc, life, writing>> /\ writing = {b}
        /\ stdout' = Append(stdout, [of |-> b, piece |-> n])
        /\ Written(b) < 2 /\ pc = "running" /\ JSON /\ JSON' = JSON
    BY DEF WritePiece, Running, flow, load, WriteInv, Pieces, JSON
  <2>2. (Untouched(b) /\ Written(b) = 0) \/ Begun(b)
    BY <2>1, UntouchedWritten DEF WriteInv
  <2>3. n \in 1 .. Pieces
    BY <2>2 DEF Begun, Pieces
  <2>4. Written(b)' = n
    BY <2>1, <2>3, WrittenGrows DEF WriteInv
  <2>5. /\ stdout' \in Seq(PieceSet) /\ stdout' # <<>> /\ Len(stdout') = Len(stdout) + 1
        /\ stdout'[Len(stdout')] = [of |-> b, piece |-> n]
        /\ \A i \in DOMAIN stdout : stdout'[i] = stdout[i]
        /\ \A i \in DOMAIN stdout' : i \in DOMAIN stdout \/ stdout'[i].of = b
    BY <2>1, <2>3 DEF WriteInv, PieceSet
  <2>6. Begun(b)' \/ (Written(b)' = 2 /\ Line(b)')
    <3>1. CASE Untouched(b) /\ Written(b) = 0
      BY <2>4, <2>5, <3>1 DEF Begun
    <3>2. CASE Begun(b)
      <4>1. n = 2 /\ stdout[Len(stdout)] = [of |-> b, piece |-> 1] /\ Len(stdout) \in DOMAIN stdout
        BY <3>2 DEF Begun, WriteInv
      <4>2. /\ Len(stdout) \in DOMAIN stdout' /\ Len(stdout) + 1 \in DOMAIN stdout'
            /\ stdout'[Len(stdout)] = [of |-> b, piece |-> 1]
            /\ stdout'[Len(stdout) + 1] = [of |-> b, piece |-> 2]
        BY <2>5, <4>1 DEF WriteInv
      <4>3. PICK k \in DOMAIN stdout' \cap Nat : k = Len(stdout)
        BY <4>2 DEF WriteInv
      <4>4. \A m \in 1 .. 2 : /\ k + m - 1 \in DOMAIN stdout'
                             /\ stdout'[k + m - 1] = [of |-> b, piece |-> m]
        <5>1. k + 1 - 1 = k /\ k + 2 - 1 = k + 1
          BY <4>3
        <5>2. \A m \in 1 .. 2 : m = 1 \/ m = 2
          OBVIOUS
        <5> QED
          BY <4>2, <4>3, <5>1, <5>2
      <4>5. Line(b)'
        BY <4>3, <4>4 DEF Line, WholeAt, PieceAt, Pieces
      <4> QED
        BY <2>4, <4>1, <4>5
    <3> QED
      BY <2>2, <3>1, <3>2
  <2>7. \A c \in Batches : c # b /\ Untouched(c) => Untouched(c)'
    BY <2>5 DEF Untouched
  <2>8. \A c \in Batches : Line(c) => Line(c)'
    BY <2>1, LineStays DEF WriteInv
  <2>9. life[b] = "exporting"
    BY <2>1 DEF WriteInv
  <2> QED
    BY <2>1, <2>5, <2>6, <2>7, <2>8, <2>9 DEF WriteInv
<1>6. CASE \E b \in Batches : WriteEnds(b)
  <2> SUFFICES ASSUME NEW b \in Batches, WriteEnds(b) PROVE WriteInv'
    BY <1>6
  <2>1. /\ UNCHANGED <<opts, pc, stdout>> /\ writing = {b} /\ writing' = {} /\ JSON
    BY DEF WriteEnds, Running, flow, WriteInv
  <2>2. \E to \in {"ok", "failed"} :
          life' = [life EXCEPT ![b] = to] /\ (to = "ok" => Written(b) = 2)
    BY DEF WriteEnds, Load!Move, Pieces
  <2>3. Written(b) = 2 => Line(b)
    BY <2>1, UntouchedWritten DEF WriteInv, Begun
  <2>4. /\ JSON' = JSON
        /\ \A c : Untouched(c)' = Untouched(c) /\ Line(c)' = Line(c)
    BY <2>1 DEF JSON, Untouched, Line, WholeAt, PieceAt
  <2> QED
    BY <2>1, <2>2, <2>3, <2>4 DEF WriteInv, Load!Lives, Load!InFlight
<1>7. CASE PrintSummary
  <2>1. /\ UNCHANGED <<opts, life, writing>> /\ writing = {} /\ JSON' = JSON
    BY <1>7 DEF PrintSummary, flow, load, WriteInv, JSON
  <2>2. CASE JSON
    <3>1. UNCHANGED stdout
      BY <1>7, <2>2, JSONKeepsStdout DEF WriteInv
    <3>2. \A c : Untouched(c)' = Untouched(c) /\ Line(c)' = Line(c)
      BY <3>1 DEF Untouched, Line, WholeAt, PieceAt
    <3> QED
      BY <2>1, <3>1, <3>2 DEF WriteInv
  <2>3. CASE ~JSON
    <3>1. stdout' \in Seq(PieceSet)
      <4>1. PICK n \in 0 .. Pieces :
              stdout' = stdout \o [i \in 1 .. n |-> [of |-> "summary", piece |-> i]]
        BY <1>7, <2>3 DEF PrintSummary
      <4>2. n \in Nat /\ \A i \in 1 .. n : i \in 1 .. Pieces
        BY DEF Pieces
      <4>3. [i \in 1 .. n |-> [of |-> "summary", piece |-> i]] \in [1 .. n -> PieceSet]
        BY <4>2 DEF PieceSet
      <4>4. [i \in 1 .. n |-> [of |-> "summary", piece |-> i]] \in Seq(PieceSet)
        BY <4>2, <4>3
      <4> QED
        BY <4>1, <4>4 DEF WriteInv
    <3> QED
      BY <2>1, <2>3, <3>1 DEF WriteInv
  <2> QED
    BY <2>2, <2>3
<1>8. CASE \E e \in {"none", "canceled", "stage", "init", "export"} : RunReturns(e)
  <2>1. UNCHANGED <<opts, out>> /\ writing = {}
    BY <1>8 DEF RunReturns, flow, Load!End, WriteInv, load, Load!InFlight
  <2>2. UNCHANGED life
    BY <1>8 DEF RunReturns, Load!End
  <2>3. /\ JSON' = JSON
        /\ \A c : Untouched(c)' = Untouched(c) /\ Line(c)' = Line(c)
    BY <2>1 DEF JSON, Untouched, Line, WholeAt, PieceAt, out
  <2> QED
    BY <2>1, <2>2, <2>3 DEF WriteInv, out
<1>9. CASE CheckSettings \/ CheckOutput \/ CreateClient \/ StartClient \/ StopClient
           \/ LoadStages \/ Upload \/ Interrupt \/ Expire \/ Exited \/ UNCHANGED vars
  <2>1. UNCHANGED <<opts, out, load>> /\ (pc = "running" => pc' = pc)
    BY <1>9 DEF CheckSettings, CheckOutput, CreateClient, StartClient, StopClient, LoadStages,
                Upload, Interrupt, Expire, Exited, Goto, Exit, vars, flow
  <2> QED
    BY <1>1, <2>1
<1> QED
  BY <1>2, <1>3, <1>4, <1>5, <1>6, <1>7, <1>8, <1>9 DEF Next, Program, Collector

\* the export of c has failed
Failed(c) == life[c] \in {"failed", "countedFailed", "lost"}

\* what follows the beginning of a line is its end, unless the write goes on or has failed
Joined(i) ==
    \/ stdout[i].piece = Pieces
    \/ Failed(stdout[i].of)
    \/ i = Len(stdout) /\ stdout[i].of \in writing
    \/ PieceAt(i + 1, stdout[i].of, Pieces)

JoinInv ==
    JSON =>
        /\ \A i \in DOMAIN stdout : Joined(i)
        /\ \A b \in writing : Written(b) = Pieces => stdout[Len(stdout)].piece = Pieces

LEMMA JoinInit == Init => JoinInv
BY DEF Init, JoinInv

\* nothing is written, no write begins or ends, and what has failed stays so
LEMMA JoinKept ==
    ASSUME JoinInv, UNCHANGED <<opts, writing, stdout>>, \A c : Failed(c) => Failed(c)'
    PROVE  JoinInv'
<1>1. /\ JSON' = JSON
      /\ \A c : Written(c)' = Written(c) /\ \A i, n : PieceAt(i, c, n)' = PieceAt(i, c, n)
  BY DEF JSON, Written, PieceAt
<1> QED
  BY <1>1 DEF JoinInv, Joined

LEMMA JoinStep ==
    ASSUME WriteInv, JoinInv, [Next]_vars
    PROVE  JoinInv'
<1>1. CASE UNCHANGED <<opts, out, life>>
  BY <1>1, JoinKept DEF out, Failed
<1>2. CASE \E b \in Batches : RunStep(b)
  <2> SUFFICES ASSUME NEW b \in Batches, RunStep(b) PROVE JoinInv'
    BY <1>2
  <2>1. UNCHANGED <<opts, writing, stdout>>
    BY DEF RunStep, Running, flow, out
  <2>2. \E from, to \in Load!Lives :
          /\ life[b] = from /\ life' = [life EXCEPT ![b] = to]
          /\ from \in {"none", "queued", "ok"} \/ to \in {"countedFailed", "lost"}
    BY DEF RunStep, Load!Queue, Load!Export, Load!Tally, Load!Drop, Load!Move, Load!Lives,
           Load!InFlight
  <2>3. \A c : Failed(c) => Failed(c)'
    <3> SUFFICES ASSUME NEW c, Failed(c) PROVE Failed(c)'
      OBVIOUS
    <3>1. CASE c = b
      BY <2>2, <3>1 DEF Failed, WriteInv
    <3>2. CASE c # b
      BY <2>2, <3>2 DEF Failed, WriteInv
    <3> QED
      BY <3>1, <3>2
  <2> QED
    BY <2>1, <2>3, JoinKept
<1>3. CASE \E b \in Batches : Answer(b) \/ Discard(b)
  BY <1>3 DEF Answer, Discard, Running, flow, JSON, JoinInv, Joined
<1>4. CASE \E b \in Batches : LockWriter(b)
  <2> SUFFICES ASSUME NEW b \in Batches, LockWriter(b) PROVE JoinInv'
    BY <1>4
  <2>1. /\ UNCHANGED <<opts, stdout, life>> /\ writing = {} /\ writing' = {b}
        /\ JSON /\ life[b] = "exporting"
    BY DEF LockWriter, LockFree, Running, flow, load
  <2>2. Written(b) = 0
    BY <2>1, UntouchedWritten DEF WriteInv
  <2>3. /\ JSON' = JSON /\ Written(b)' = Written(b)
        /\ \A c : (Failed(c)' = Failed(c)) /\ \A i, n : PieceAt(i, c, n)' = PieceAt(i, c, n)
    BY <2>1 DEF JSON, Written, PieceAt, Failed
  <2> QED
    BY <2>1, <2>2, <2>3 DEF JoinInv, Joined, Pieces
<1>5. CASE \E b \in Batches : WritePiece(b)
  <2> SUFFICES ASSUME NEW b \in Batches, WritePiece(b) PROVE JoinInv'
    BY <1>5
  <2>1. PICK n : n = Written(b) + 1
    OBVIOUS
  <2>2. /\ UNCHANGED <<opts, life, writing>> /\ writing = {b} /\ JSON /\ JSON' = JSON
        /\ stdout' = Append(stdout, [of |-> b, piece |-> n]) /\ Written(b) < 2
    BY <2>1 DEF WritePiece, Running, flow, load, WriteInv, Pieces, JSON
  <2>3. (n = 1 /\ Untouched(b)) \/ (n = 2 /\ Begun(b))
    BY <2>1, <2>2, UntouchedWritten DEF WriteInv, Begun
  <2>4. PICK L \in Nat : L = Len(stdout)
    BY DEF WriteInv
  <2>5. /\ Len(stdout') = L + 1 /\ DOMAIN stdout = 1 .. L /\ DOMAIN stdout' = 1 .. (L + 1)
        /\ stdout'[L + 1] = [of |-> b, piece |-> n]
        /\ \A i \in 1 .. L : stdout'[i] = stdout[i]
    BY <2>2, <2>4 DEF WriteInv
  <2>6. \A c : Failed(c)' = Failed(c)
    BY <2>2 DEF Failed
  <2>7. ASSUME NEW i \in 1 .. (L + 1)
        PROVE  Joined(i)'
    <3>1. CASE i = L + 1
      BY <2>2, <2>5, <3>1 DEF Joined
    <3>2. CASE i \in 1 .. L
      <4>1. \/ stdout[i].piece = Pieces
            \/ Failed(stdout[i].of)
            \/ i = L /\ stdout[i].of = b
            \/ PieceAt(i + 1, stdout[i].of, Pieces)
        BY <2>2, <2>4, <2>5, <3>2 DEF JoinInv, Joined
      <4>2. CASE i = L /\ stdout[i].of = b
        <5>1. n = 2
          BY <2>3, <2>5, <3>2, <4>2 DEF Untouched
        <5>2. i + 1 \in DOMAIN stdout' /\ stdout'[i + 1] = [of |-> b, piece |-> Pieces]
          BY <2>5, <4>2, <5>1 DEF Pieces
        <5>3. stdout'[i].of = b
          BY <2>5, <3>2, <4>2
        <5> QED
          BY <5>2, <5>3 DEF PieceAt, Joined
      <4>3. CASE PieceAt(i + 1, stdout[i].of, Pieces)
        <5>1. i + 1 \in 1 .. L /\ stdout[i + 1] = [of |-> stdout[i].of, piece |-> Pieces]
          BY <2>5, <4>3 DEF PieceAt
        <5>2. i + 1 \in 1 .. (L + 1) /\ stdout'[i + 1] = stdout[i + 1] /\ stdout'[i] = stdout[i]
          BY <2>5, <3>2, <5>1
        <5> QED
          BY <2>5, <5>1, <5>2 DEF PieceAt, Joined
      <4> QED
        BY <2>5, <2>6, <3>2, <4>1, <4>2, <4>3 DEF Joined
    <3> QED
      BY <3>1, <3>2
  <2>8. ASSUME Written(b)' = Pieces
        PROVE  stdout'[L + 1].piece = Pieces
    <3>1. Written(b)' = n
      <4>1. n \in 1 .. Pieces
        BY <2>3 DEF Pieces
      <4> QED
        BY <2>1, <2>2, <4>1, WrittenGrows DEF WriteInv
    <3> QED
      BY <2>5, <2>8, <3>1
  <2> QED
    BY <2>2, <2>5, <2>7, <2>8 DEF JoinInv
<1>6. CASE \E b \in Batches : WriteEnds(b)
  <2> SUFFICES ASSUME NEW b \in Batches, WriteEnds(b) PROVE JoinInv'
    BY <1>6
  <2>1. /\ UNCHANGED <<opts, stdout>> /\ writing = {b} /\ writing' = {} /\ JSON /\ JSON' = JSON
        /\ life[b] = "exporting"
    BY DEF WriteEnds, Running, flow, WriteInv, JSON
  <2>2. \E to \in {"ok", "failed"} :
          life' = [life EXCEPT ![b] = to] /\ (to = "ok" => Written(b) = Pieces)
    BY DEF WriteEnds, Load!Move, Pieces
  <2>3. \A c : Failed(c) => Failed(c)'
    BY <2>1, <2>2 DEF Failed, WriteInv
  <2>4. Failed(b)' \/ stdout[Len(stdout)].piece = Pieces
    BY <2>1, <2>2 DEF Failed, WriteInv, JoinInv, Joined
  <2>5. \A c, i, n : PieceAt(i, c, n)' = PieceAt(i, c, n)
    BY <2>1 DEF PieceAt
  <2> QED
    BY <2>1, <2>3, <2>4, <2>5 DEF JoinInv, Joined
<1>7. CASE PrintSummary
  <2>1. CASE JSON
    BY <1>1, <1>7, <2>1, JSONKeepsStdout DEF PrintSummary, flow, load, out, WriteInv
  <2>2. CASE ~JSON
    BY <1>7, <2>2 DEF PrintSummary, flow, JSON, JoinInv, Joined
  <2> QED
    BY <2>1, <2>2
<1>8. CASE \/ \E e \in {"none", "canceled", "stage", "init", "export"} : RunReturns(e)
           \/ CheckSettings \/ CheckOutput \/ CreateClient \/ StartClient \/ StopClient
           \/ LoadStages \/ Upload \/ Interrupt \/ Expire \/ Exited \/ UNCHANGED vars
  <2>1. UNCHANGED <<opts, out, life>>
    BY <1>8 DEF RunReturns, Load!End, CheckSettings, CheckOutput, CreateClient, StartClient,
                StopClient, LoadStages, Upload, Interrupt, Expire, Exited, vars, flow, load
  <2> QED
    BY <1>1, <2>1
<1> QED
  BY <1>2, <1>3, <1>4, <1>5, <1>6, <1>7, <1>8 DEF Next, Program, Collector

LEMMA JoinInvariance == Spec => [](WriteInv /\ JoinInv)
BY WriteInit, WriteStep, JoinInit, JoinStep, PTL DEF Spec

LEMMA LinesAreUnbroken == WriteInv /\ JoinInv => LinesUnbroken
<1> SUFFICES ASSUME WriteInv, JoinInv, JSON, NEW b \in Batches, life[b] \in {"ok", "countedOk"}
             PROVE  \E i \in DOMAIN stdout : WholeAt(i, b) /\ (BeginsLine(i) \/ AfterTorn(i))
  BY DEF LinesUnbroken, WriteInv
<1>1. PICK i \in DOMAIN stdout : WholeAt(i, b)
  BY DEF WriteInv, Line
<1>2. PICK L \in Nat : L = Len(stdout) /\ DOMAIN stdout = 1 .. L
  BY DEF WriteInv
<1>3. stdout[i] = [of |-> b, piece |-> 1]
  <2>1. 1 \in 1 .. Pieces /\ i + 1 - 1 = i
    BY <1>2 DEF Pieces
  <2> QED
    BY <1>1, <2>1 DEF WholeAt, PieceAt
<1>4. CASE i = 1
  BY <1>1, <1>4 DEF BeginsLine
<1>5. CASE i # 1
  <2>1. i - 1 \in 1 .. L /\ i - 1 # L /\ (i - 1) + 1 = i /\ i > 1
    BY <1>2, <1>5
  <2>2. PICK x \in PieceSet : x = stdout[i - 1]
    BY <1>2, <2>1 DEF WriteInv
  <2>3. x.piece \in 1 .. 2 /\ x = [of |-> x.of, piece |-> x.piece]
    BY DEF PieceSet, Pieces
  <2>4. x.of \in Batches
    BY <1>2, <2>1, <2>2 DEF WriteInv
  <2>5. x.piece = Pieces \/ Failed(x.of) \/ PieceAt(i, x.of, Pieces)
    BY <1>2, <2>1, <2>2 DEF JoinInv, Joined
  <2>6. CASE x.piece = Pieces
    BY <1>1, <2>2, <2>6 DEF BeginsLine
  <2>7. CASE x.piece # Pieces /\ Failed(x.of)
    <3>1. x.piece = 1
      BY <2>3, <2>7 DEF Pieces
    <3>2. PieceAt(i - 1, x.of, 1)
      BY <1>2, <2>1, <2>2, <2>3, <3>1 DEF PieceAt
    <3>3. AfterTorn(i)
      BY <2>1, <2>4, <2>7, <3>2 DEF AfterTorn, Failed
    <3> QED
      BY <1>1, <3>3
  <2>8. ~PieceAt(i, x.of, Pieces)
    <3>1. [of |-> b, piece |-> 1].piece # [of |-> x.of, piece |-> 2].piece
      OBVIOUS
    <3> QED
      BY <1>3, <3>1 DEF PieceAt, Pieces
  <2> QED
    BY <2>5, <2>6, <2>7, <2>8
<1> QED
  BY <1>4, <1>5

\* However many exporters a JSON dry run has, each batch it exported is whole and begins a
\* line, unless the export before it failed in the middle of its own; nothing else is printed
\* on stdout.
THEOREM NoLineTorn == Spec => []LinesUnbroken
BY LinesAreUnbroken, JoinInvariance, PTL

-----------------------------------------------------------------------------
(* What a process that exits with 0 has done. *)

\* no piece of a line is written twice
PiecesOnce == \A i, j \in DOMAIN stdout : stdout[i] = stdout[j] => i = j

\* a run without an error has exported all it generated, and an exit status of 0 is of one
ExitInv ==
    /\ verdict = "none" => \A b \in Batches : life[b] \in {"none", "countedOk"}
    /\ JSON => PiecesOnce
    /\ status = 0 => pc = "exited" /\ verdict = "none"

LEMMA ExitInit == Init => ExitInv
BY CommandAssumption DEF Init, ExitInv, PiecesOnce, Load!Init

LEMMA ExitVerdict ==
    ASSUME ExitInv, NEW b \in Batches,
           RunStep(b) \/ Answer(b) \/ Discard(b) \/ WriteEnds(b)
    PROVE  verdict = "running" /\ UNCHANGED <<opts, pc, status, stdout, verdict>>
BY DEF RunStep, Answer, Discard, WriteEnds, Running, flow, out, Load!Queue, Load!Export,
       Load!Tally, Load!Drop, Load!Answer, Load!Move

\* the piece that follows is a new one
LEMMA PieceIsNew ==
    ASSUME WriteInv, NEW b \in Batches, WritePiece(b)
    PROVE  \A i \in DOMAIN stdout : stdout[i] # [of |-> b, piece |-> Written(b) + 1]
<1> SUFFICES ASSUME NEW i \in DOMAIN stdout, stdout[i] = [of |-> b, piece |-> Written(b) + 1]
             PROVE  FALSE
  OBVIOUS
<1>1. b \in writing /\ Written(b) < 2 /\ stdout[i].of = b
  BY DEF WritePiece, Pieces
<1>2. Begun(b)
  BY <1>1 DEF WriteInv, Untouched
<1> DEFINE I == {j \in DOMAIN stdout : stdout[j].of = b}
<1>3. I \subseteq 1 .. Len(stdout) /\ Len(stdout) \in Nat
  BY DEF WriteInv
<1>4. IsFiniteSet(I)
  BY <1>3, FS_Interval, FS_Subset
<1>5. Cardinality(I) = 1
  BY <1>2 DEF Begun, Written
<1>6. PICK k : I = {k}
  BY <1>4, <1>5, FS_Singleton
<1>7. Len(stdout) \in I /\ i \in I
  BY <1>1, <1>2 DEF Begun, WriteInv
<1>8. stdout[i] = [of |-> b, piece |-> 1]
  BY <1>2, <1>6, <1>7 DEF Begun
<1>9. Written(b) + 1 = 2
  BY <1>2 DEF Begun
<1>10. [of |-> b, piece |-> 2] = [of |-> b, piece |-> 1]
  BY <1>8, <1>9
<1>11. [of |-> b, piece |-> 2].piece = [of |-> b, piece |-> 1].piece
  BY <1>10
<1> QED
  BY <1>11

LEMMA ExitStep ==
    ASSUME WriteInv, ExitInv, [Next]_vars
    PROVE  ExitInv'
<1>1. CASE UNCHANGED <<opts, pc, stdout, verdict, status>> /\ verdict = "running"
  BY <1>1 DEF ExitInv, JSON, PiecesOnce
<1>2. CASE UNCHANGED <<opts, pc, stdout, load, status>>
  BY <1>2 DEF ExitInv, JSON, PiecesOnce, load
<1>3. CASE \E b \in Batches : RunStep(b) \/ Answer(b) \/ Discard(b) \/ WriteEnds(b)
  BY <1>1, <1>3, ExitVerdict
<1>4. CASE \E b \in Batches : LockWriter(b)
  BY <1>2, <1>4 DEF LockWriter, Running, flow, load
<1>5. CASE \E b \in Batches : WritePiece(b)
  <2> SUFFICES ASSUME NEW b \in Batches, WritePiece(b) PROVE ExitInv'
    BY <1>5
  <2> DEFINE piece == [of |-> b, piece |-> Written(b) + 1]
  <2>1. /\ UNCHANGED <<opts, pc, status, load>> /\ pc = "running"
        /\ stdout' = Append(stdout, piece) /\ JSON
    BY DEF WritePiece, Running, flow, WriteInv
  <2>2. \A i \in DOMAIN stdout : stdout[i] # piece
    BY PieceIsNew
  <2>3. PiecesOnce'
    <3> HIDE DEF piece
    <3>1. /\ DOMAIN stdout' = DOMAIN stdout \cup {Len(stdout) + 1}
          /\ stdout'[Len(stdout) + 1] = piece
          /\ \A i \in DOMAIN stdout : stdout'[i] = stdout[i]
      BY <2>1 DEF WriteInv
    <3> QED
      BY <2>1, <2>2, <3>1 DEF ExitInv, PiecesOnce
  <2> QED
    BY <2>1, <2>3 DEF ExitInv, JSON, load
<1>6. CASE PrintSummary
  <2>1. /\ pc = "summary" /\ pc' = "exited" /\ UNCHANGED <<opts, load>>
        /\ status' = IF verdict = "none" THEN 0 ELSE 1
    BY <1>6 DEF PrintSummary, Exit, flow
  <2>2. JSON => UNCHANGED stdout
    BY <1>6, JSONKeepsStdout DEF WriteInv
  <2> QED
    BY <2>1, <2>2 DEF ExitInv, JSON, PiecesOnce, load
<1>7. CASE \E e \in {"none", "canceled", "stage", "init", "export"} : RunReturns(e)
  <2> SUFFICES ASSUME NEW e \in {"none", "canceled", "stage", "init", "export"}, RunReturns(e)
               PROVE  ExitInv'
    BY <1>7
  <2>1. /\ UNCHANGED <<opts, stdout, status, life>> /\ pc = "running" /\ pc' = "summary"
        /\ verdict' = e /\ (e = "none" => \A b \in Batches : life[b] \in {"none", "countedOk"})
    BY DEF RunReturns, Goto, flow, out, Load!End
  <2> QED
    BY <2>1 DEF ExitInv, JSON, PiecesOnce
<1>8. CASE CheckSettings \/ CheckOutput \/ CreateClient \/ StartClient \/ StopClient
           \/ LoadStages \/ Upload \/ Interrupt \/ Expire
  <2>1. /\ UNCHANGED <<opts, stdout, load>> /\ pc # "exited"
        /\ UNCHANGED status \/ status' \in {1, 2, 130}
    BY <1>8 DEF CheckSettings, CheckOutput, CreateClient, StartClient, StopClient, LoadStages,
       Upload, Interrupt, Expire, Exit, Goto, flow, out
  <2> QED
    BY <2>1 DEF ExitInv, JSON, PiecesOnce, load
<1>9. CASE Exited \/ UNCHANGED vars
  BY <1>2, <1>9 DEF Exited, vars, flow, out
<1> QED
  BY <1>3, <1>4, <1>5, <1>6, <1>7, <1>8, <1>9 DEF Next, Program, Collector

LEMMA ExitInvariance == Spec => [](WriteInv /\ ExitInv)
BY WriteInit, WriteStep, ExitInit, ExitStep, PTL DEF Spec

LEMMA UpTo ==
    ASSUME NEW n \in Nat
    PROVE  IsFiniteSet(1 .. n) /\ Cardinality(1 .. n) = n
<1>1. IsFiniteSet(1 .. n) /\ Cardinality(1 .. n) = IF 1 > n THEN 0 ELSE n - 1 + 1
  BY FS_Interval
<1>2. (IF 1 > n THEN 0 ELSE n - 1 + 1) = n
  OBVIOUS
<1> QED
  BY <1>1, <1>2

\* a stream whose pieces are all the pieces of a set of batches, each once, is as long as
\* the lines of these batches
LEMMA LinesLength ==
    ASSUME stdout \in Seq(PieceSet), PiecesOnce, NEW D,
           \A i \in DOMAIN stdout : stdout[i].of \in D,
           \A b \in D : Line(b)
    PROVE  Len(stdout) = Pieces * Cardinality(D)
<1> DEFINE n == Len(stdout)
           at == [i \in 1 .. n |-> stdout[i].of]
           piece == [i \in 1 .. n |-> <<stdout[i].of, stdout[i].piece>>]
<1>1. n \in Nat /\ DOMAIN stdout = 1 .. n
  BY LenProperties
<1>2. \A i \in 1 .. n : /\ stdout[i].piece \in 1 .. 2
                        /\ stdout[i] = [of |-> stdout[i].of, piece |-> stdout[i].piece]
  <2>1. \A i \in 1 .. n : stdout[i] \in PieceSet
    BY <1>1
  <2>2. \A x \in PieceSet : x.piece \in 1 .. 2 /\ x = [of |-> x.of, piece |-> x.piece]
    BY DEF PieceSet, Pieces
  <2> QED
    BY <2>1, <2>2
<1>3. ASSUME NEW b \in D, NEW m \in 1 .. 2
      PROVE  \E i \in 1 .. n : stdout[i] = [of |-> b, piece |-> m]
  <2>1. PICK i \in DOMAIN stdout : \A k \in 1 .. 2 : PieceAt(i + k - 1, b, k)
    BY DEF Line, WholeAt, Pieces
  <2> QED
    BY <1>1, <2>1 DEF PieceAt
<1>4. IsFiniteSet(1 .. n) /\ Cardinality(1 .. n) = n
  BY <1>1, UpTo
<1>5. IsFiniteSet(D)
  <2>1. \A b \in D : \E i \in 1 .. n : at[i] = b
    <3> SUFFICES ASSUME NEW b \in D PROVE \E i \in 1 .. n : at[i] = b
      OBVIOUS
    <3>1. 1 \in 1 .. 2
      OBVIOUS
    <3>2. PICK i \in 1 .. n : stdout[i] = [of |-> b, piece |-> 1]
      BY <1>3, <3>1
    <3> QED
      BY <3>2
  <2>2. at \in Surjection(1 .. n, D)
    BY <1>1, <2>1 DEF Surjection
  <2> QED
    BY <1>4, <2>2, FS_Surjection
<1>6. piece \in Bijection(1 .. n, D \X (1 .. 2))
  <2>1. piece \in [1 .. n -> D \X (1 .. 2)]
    BY <1>1, <1>2
  <2>2. \A i, j \in 1 .. n : piece[i] = piece[j] => i = j
    BY <1>1, <1>2 DEF PiecesOnce
  <2>3. \A x \in D \X (1 .. 2) : \E i \in 1 .. n : piece[i] = x
    <3>1. ASSUME NEW b \in D, NEW m \in 1 .. 2
          PROVE  \E i \in 1 .. n : piece[i] = <<b, m>>
      <4>1. PICK i \in 1 .. n : stdout[i] = [of |-> b, piece |-> m]
        BY <1>3
      <4> QED
        BY <4>1
    <3>2. ASSUME NEW x \in D \X (1 .. 2)
          PROVE  \E i \in 1 .. n : piece[i] = x
      <4>1. x[1] \in D /\ x[2] \in 1 .. 2 /\ x = <<x[1], x[2]>>
        OBVIOUS
      <4> HIDE DEF piece
      <4> QED
        BY <3>1, <4>1
    <3> HIDE DEF piece
    <3> QED
      BY <3>2
  <2> HIDE DEF piece
  <2> QED
    BY <2>1, <2>2, <2>3 DEF Bijection, Injection, Surjection, IsInjective
<1>7. Cardinality(D \X (1 .. 2)) = n
  BY <1>4, <1>6, FS_Bijection DEF ExistsBijection
<1>8. IsFiniteSet(1 .. 2) /\ Cardinality(1 .. 2) = 2
  BY UpTo
<1>9. Cardinality(D \X (1 .. 2)) = Cardinality(D) * 2
  BY <1>5, <1>8, FS_Product
<1>10. Cardinality(D) \in Nat
  BY <1>5, FS_CardinalityType
<1> QED
  BY <1>7, <1>9, <1>10 DEF Pieces

\* A process that exits with 0 has exported and counted all that it generated, and stdout of
\* a JSON dry run is the lines of just these batches.
THEOREM ZeroMeansAll == Spec => []ExitZeroMeansAll
<1>1. WriteInv /\ JoinInv /\ ExitInv => ExitZeroMeansAll
  <2> DEFINE done == {b \in Batches : life[b] = "countedOk"}
  <2> SUFFICES ASSUME WriteInv, JoinInv, ExitInv, status = 0
               PROVE  /\ \A b \in Batches : life[b] \in {"none", "countedOk"}
                      /\ JSON =>
                           /\ Len(stdout) = Pieces * Cardinality(done)
                           /\ \A b \in done : \E i \in DOMAIN stdout :
                                 WholeAt(i, b) /\ BeginsLine(i)
    BY DEF ExitZeroMeansAll
  <2>1. (\A b \in Batches : life[b] \in {"none", "countedOk"}) /\ writing = {}
    BY DEF ExitInv, WriteInv
  <2>2. ASSUME JSON
        PROVE  Len(stdout) = Pieces * Cardinality(done)
    <3>1. \A b \in done : Line(b)
      BY <2>2 DEF WriteInv
    <3>2. \A i \in DOMAIN stdout : stdout[i].of \in done
      BY <2>1, <2>2 DEF WriteInv, Untouched
    <3>3. stdout \in Seq(PieceSet) /\ PiecesOnce
      BY <2>2 DEF WriteInv, ExitInv
    <3> HIDE DEF done
    <3> QED
      BY <3>1, <3>2, <3>3, LinesLength
  <2>3. ASSUME JSON, NEW b \in done
        PROVE  \E i \in DOMAIN stdout : WholeAt(i, b) /\ BeginsLine(i)
    <3>1. PICK i \in DOMAIN stdout : WholeAt(i, b) /\ (BeginsLine(i) \/ AfterTorn(i))
      BY <2>3, LinesAreUnbroken DEF LinesUnbroken
    <3>2. ~AfterTorn(i)
      BY <2>1 DEF AfterTorn
    <3> QED
      BY <3>1, <3>2
  <2> HIDE DEF done
  <2> QED
    BY <2>1, <2>2, <2>3
<1> QED
  BY <1>1, ExitInvariance, JoinInvariance, PTL

-----------------------------------------------------------------------------
(* The end of a process. *)

\* the places that main, a batch and a line have before them
PlacesLeft ==
    CASE pc = "flags"  -> 9 [] pc = "output" -> 8 [] pc = "create" -> 7 [] pc = "start"   -> 6
      [] pc = "upload" -> 5 [] pc = "stop"   -> 4 [] pc = "stages" -> 3 [] pc = "running" -> 2
      [] pc = "summary" -> 1 [] OTHER -> 0
EventsLeft == (IF interrupted THEN 0 ELSE 1) + (IF expired THEN 0 ELSE 1)
Stage(l) ==
    CASE l = "none" -> 0 [] l = "queued" -> 1 [] l = "exporting" -> 2
      [] l \in {"ok", "failed"} -> 3 [] OTHER -> 4
StagesLeft == {x \in Batches \X (1 .. 4) : x[2] > Stage(life[x[1]])}
PiecesLeft == {x \in Batches \X (1 .. Pieces) : x[2] > Written(x[1])}

\* each step of a process lowers this
Rank == <<PlacesLeft + EventsLeft, Cardinality(StagesLeft),
          Cardinality(Batches \ writing), Cardinality(PiecesLeft)>>

LEMMA LeftIsFinite ==
    ASSUME IsFiniteSet(Batches), NEW n \in Nat, NEW S \in SUBSET (Batches \X (1 .. n))
    PROVE  IsFiniteSet(S) /\ Cardinality(S) \in Nat
<1>1. IsFiniteSet(1 .. n)
  BY FS_Interval
<1>2. IsFiniteSet(Batches \X (1 .. n))
  BY <1>1, FS_Product
<1> QED
  BY <1>2, FS_Subset, FS_CardinalityType

\* a finite set that loses an element and gets none has fewer
LEMMA FewerLeft ==
    ASSUME NEW S, IsFiniteSet(S), NEW T \in SUBSET S, NEW x \in S, x \notin T
    PROVE  Cardinality(T) < Cardinality(S)
<1>1. /\ Cardinality(T) <= Cardinality(S) /\ Cardinality(T) # Cardinality(S)
      /\ Cardinality(S) \in Nat /\ Cardinality(T) \in Nat
  BY FS_Subset, FS_CardinalityType
<1> QED
  BY <1>1

LEMMA RankParts ==
    ASSUME IsFiniteSet(Batches)
    PROVE  /\ PlacesLeft \in 0 .. 9 /\ EventsLeft \in 0 .. 2
           /\ IsFiniteSet(StagesLeft) /\ Cardinality(StagesLeft) \in Nat
           /\ IsFiniteSet(Batches \ writing) /\ Cardinality(Batches \ writing) \in Nat
           /\ IsFiniteSet(PiecesLeft) /\ Cardinality(PiecesLeft) \in Nat
<1>1. PlacesLeft \in 0 .. 9 /\ EventsLeft \in 0 .. 2
  BY DEF PlacesLeft, EventsLeft
<1>2. StagesLeft \in SUBSET (Batches \X (1 .. 4)) /\ PiecesLeft \in SUBSET (Batches \X (1 .. 2))
  BY DEF StagesLeft, PiecesLeft, Pieces
<1>3. 4 \in Nat /\ 2 \in Nat
  OBVIOUS
<1>4. Batches \ writing \in SUBSET Batches
  OBVIOUS
<1> QED
  BY <1>1, <1>2, <1>3, <1>4, LeftIsFinite, FS_Subset, FS_CardinalityType

\* main goes on, or an event that happens once
LEMMA MainDescends ==
    ASSUME IsFiniteSet(Batches),
           \/ CheckSettings \/ CheckOutput \/ CreateClient \/ StartClient \/ Upload \/ StopClient
           \/ LoadStages \/ PrintSummary \/ Interrupt \/ Expire
           \/ \E e \in {"none", "canceled", "stage", "init", "export"} : RunReturns(e)
    PROVE  Lower(Rank', Rank)
<1>1. \/ PlacesLeft' < PlacesLeft /\ EventsLeft' = EventsLeft
      \/ PlacesLeft' <= PlacesLeft /\ EventsLeft' < EventsLeft
  <2>1. CASE CheckSettings \/ CheckOutput \/ LoadStages \/ PrintSummary
    BY <2>1 DEF CheckSettings, CheckOutput, LoadStages, PrintSummary, Exit, Goto, flow, preflight,
                PlacesLeft, EventsLeft
  <2>2. CASE CreateClient \/ StartClient \/ Upload \/ StopClient
    <3>1. UNCHANGED <<interrupted, expired>>
      BY <2>2 DEF CreateClient, StartClient, Upload, StopClient, flow
    <3>2. \/ pc = "create" /\ pc' \in {"start", "exited"}
          \/ pc = "start" /\ pc' \in {"upload", "exited"}
          \/ pc = "upload" /\ pc' = "stop"
          \/ pc = "stop" /\ pc' \in {"stages", "exited"}
      BY <2>2 DEF CreateClient, StartClient, Upload, StopClient, Exit, Goto
    <3> QED
      BY <3>1, <3>2 DEF PlacesLeft, EventsLeft
  <2>3. CASE Interrupt
    <3>1. /\ ~interrupted /\ interrupted' /\ expired' = expired
          /\ pc' = pc \/ pc' = "exited"
      BY <2>3 DEF Interrupt, Exit, preflight
    <3> QED
      BY <3>1 DEF PlacesLeft, EventsLeft
  <2>4. CASE Expire
    <3>1. ~expired /\ expired' /\ UNCHANGED <<interrupted, pc>>
      BY <2>4 DEF Expire, flow
    <3> QED
      BY <3>1 DEF PlacesLeft, EventsLeft
  <2>5. CASE \E e \in {"none", "canceled", "stage", "init", "export"} : RunReturns(e)
    BY <2>5 DEF RunReturns, Goto, flow, preflight, PlacesLeft, EventsLeft
  <2> QED
    BY <2>1, <2>2, <2>3, <2>4, <2>5
<1>2. /\ PlacesLeft \in 0 .. 9 /\ EventsLeft \in 0 .. 2
      /\ PlacesLeft' \in 0 .. 9 /\ EventsLeft' \in 0 .. 2
  BY DEF PlacesLeft, EventsLeft
<1>3. PlacesLeft' + EventsLeft' < PlacesLeft + EventsLeft
  <2>1. PICK p, q, e, f \in Nat : /\ p = PlacesLeft /\ q = PlacesLeft'
                                 /\ e = EventsLeft /\ f = EventsLeft'
    BY <1>2
  <2>2. (q < p /\ f = e) \/ (q <= p /\ f < e)
    BY ONLY <1>1, <2>1
  <2>3. q + f < p + e
    BY <2>2
  <2> QED
    BY ONLY <2>1, <2>3
<1>4. Rank[1] = PlacesLeft + EventsLeft /\ Rank'[1] = PlacesLeft' + EventsLeft'
  BY DEF Rank
<1> QED
  BY <1>3, <1>4 DEF Lower

\* while the run is under way, main and the events stand still
LEMMA RunningKeeps ==
    ASSUME Running
    PROVE  Rank'[1] = Rank[1]
BY DEF Running, flow, preflight, Rank, PlacesLeft, EventsLeft

\* a batch comes to its next stage
LEMMA MoveDescends ==
    ASSUME IsFiniteSet(Batches), WriteInv, Running,
           NEW b \in Batches, NEW from \in Load!Lives, NEW to \in Load!Lives,
           Load!Move(b, from, to), Stage(from) < Stage(to)
    PROVE  Lower(Rank', Rank)
<1>1. /\ life[b] = from /\ life'[b] = to
      /\ \A c \in Batches : c # b => life'[c] = life[c]
  BY DEF Load!Move, WriteInv
<1>2. \A l : Stage(l) \in 0 .. 4
  BY DEF Stage
<1>3. PICK m \in 0 .. 4 : m = Stage(from)
  BY <1>2
<1>4. PICK n \in 0 .. 4 : n = Stage(to)
  BY <1>2
<1>5. StagesLeft' \in SUBSET StagesLeft
  <2>1. ASSUME NEW c \in Batches, NEW k \in 1 .. 4, k > Stage(life'[c])
        PROVE  k > Stage(life[c])
    <3>1. CASE c = b
      <4>1. k > n /\ m < n /\ Stage(life[c]) = m
        BY <1>1, <1>3, <1>4, <2>1, <3>1
      <4> QED
        BY <4>1
    <3>2. CASE c # b
      BY <1>1, <2>1, <3>2
    <3> QED
      BY <3>1, <3>2
  <2> QED
    BY <2>1 DEF StagesLeft
<1>6. <<b, n>> \in StagesLeft /\ <<b, n>> \notin StagesLeft'
  <2>1. n \in 1 .. 4 /\ n > m /\ ~(n > n)
    BY <1>3, <1>4
  <2>2. Stage(life[b]) = m /\ Stage(life'[b]) = n
    BY <1>1, <1>3, <1>4
  <2> QED
    BY <2>1, <2>2 DEF StagesLeft
<1>7. Cardinality(StagesLeft') < Cardinality(StagesLeft)
  BY <1>5, <1>6, RankParts, FewerLeft
<1>8. Rank[2] = Cardinality(StagesLeft) /\ Rank'[2] = Cardinality(StagesLeft')
  BY DEF Rank
<1> QED
  BY <1>7, <1>8, RunningKeeps DEF Lower

LEMMA BatchDescends ==
    ASSUME IsFiniteSet(Batches), WriteInv, NEW b \in Batches,
           RunStep(b) \/ Answer(b) \/ Discard(b) \/ WriteEnds(b)
    PROVE  Lower(Rank', Rank)
<1>1. Running
  BY DEF RunStep, Answer, Discard, WriteEnds
<1>2. \/ Load!Move(b, "none", "queued") \/ Load!Move(b, "queued", "exporting")
      \/ Load!Move(b, "exporting", "ok") \/ Load!Move(b, "exporting", "failed")
      \/ Load!Move(b, "ok", "countedOk") \/ Load!Move(b, "failed", "countedFailed")
      \/ Load!Move(b, "ok", "lost") \/ Load!Move(b, "failed", "lost")
  BY DEF RunStep, Answer, Discard, WriteEnds, Load!Queue, Load!Export, Load!Answer, Load!Tally,
         Load!Drop
<1>3. /\ Stage("none") = 0 /\ Stage("queued") = 1 /\ Stage("exporting") = 2
      /\ Stage("ok") = 3 /\ Stage("failed") = 3 /\ Stage("countedOk") = 4
      /\ Stage("countedFailed") = 4 /\ Stage("lost") = 4
  BY DEF Stage
<1>4. {"none", "queued", "exporting", "ok", "failed", "countedOk", "countedFailed", "lost"}
        \subseteq Load!Lives
  BY DEF Load!Lives, Load!InFlight
<1>5. \E from, to \in Load!Lives : Load!Move(b, from, to) /\ Stage(from) < Stage(to)
  BY <1>2, <1>3, <1>4
<1> QED
  BY <1>1, <1>5, MoveDescends

\* a batch gets the writer, or a piece of its line is written
LEMMA WriterDescends ==
    ASSUME IsFiniteSet(Batches), WriteInv, NEW b \in Batches, LockWriter(b) \/ WritePiece(b)
    PROVE  Lower(Rank', Rank)
<1>1. Running /\ UNCHANGED life
  BY DEF LockWriter, WritePiece, load
<1>2. Rank'[1] = Rank[1] /\ Rank'[2] = Rank[2]
  BY <1>1, RunningKeeps DEF Rank, StagesLeft
<1>3. /\ Rank[3] = Cardinality(Batches \ writing) /\ Rank'[3] = Cardinality(Batches \ writing')
      /\ Rank[4] = Cardinality(PiecesLeft) /\ Rank'[4] = Cardinality(PiecesLeft')
  BY DEF Rank
<1>4. CASE LockWriter(b)
  <2>1. writing' = writing \cup {b} /\ b \notin writing
    BY <1>4 DEF LockWriter
  <2>2. Batches \ writing' \in SUBSET (Batches \ writing)
    BY <2>1
  <2>3. b \in Batches \ writing /\ b \notin Batches \ writing'
    BY <2>1
  <2>4. Cardinality(Batches \ writing') < Cardinality(Batches \ writing)
    BY <2>2, <2>3, RankParts, FewerLeft
  <2> QED
    BY <1>2, <1>3, <2>4 DEF Lower
<1>5. CASE WritePiece(b)
  <2> DEFINE n == Written(b) + 1
  <2>1. /\ stdout' = Append(stdout, [of |-> b, piece |-> n]) /\ writing' = writing
        /\ Written(b) < Pieces /\ b \in writing
    BY <1>5 DEF WritePiece
  <2>2. stdout \in Seq(PieceSet)
    BY DEF WriteInv
  <2>3. \A c : IsFiniteSet({i \in DOMAIN stdout : stdout[i].of = c}) /\ Written(c) \in Nat
    <3>1. ASSUME NEW c
          PROVE  IsFiniteSet({i \in DOMAIN stdout : stdout[i].of = c}) /\ Written(c) \in Nat
      <4>1. {i \in DOMAIN stdout : stdout[i].of = c} \in SUBSET (1 .. Len(stdout))
            /\ Len(stdout) \in Nat
        BY <2>2
      <4>2. IsFiniteSet({i \in DOMAIN stdout : stdout[i].of = c})
        BY <4>1, FS_Interval, FS_Subset
      <4> QED
        BY <4>2, FS_CardinalityType DEF Written
    <3> QED
      BY <3>1
  <2>4. n \in 1 .. Pieces
    <3>1. PICK m \in Nat : m = Written(b)
      BY <2>3
    <3> QED
      BY <2>1, <3>1 DEF Pieces
  <2>5. Written(b)' = n
    BY <2>1, <2>2, <2>4, WrittenGrows
  <2>6. \A c : c # b => Written(c)' = Written(c)
    <3>1. ASSUME NEW c, c # b
          PROVE  {i \in DOMAIN stdout' : stdout'[i].of = c}
                   = {i \in DOMAIN stdout : stdout[i].of = c}
      <4>1. /\ DOMAIN stdout' = DOMAIN stdout \cup {Len(stdout) + 1}
            /\ stdout'[Len(stdout) + 1].of = b
            /\ \A i \in DOMAIN stdout : stdout'[i] = stdout[i]
        BY <2>1, <2>2
      <4> QED
        BY <3>1, <4>1
    <3> QED
      BY <3>1 DEF Written
  <2>7. PICK m \in Nat : m = Written(b)
    BY <2>3
  <2>8. PiecesLeft' \in SUBSET PiecesLeft
    <3>1. ASSUME NEW c \in Batches, NEW k \in 1 .. Pieces, k > Written(c)'
          PROVE  k > Written(c)
      <4>1. CASE c = b
        <5>1. k > m + 1 /\ k \in Int
          BY <2>5, <2>7, <3>1, <4>1 DEF Pieces
        <5> QED
          BY <2>7, <4>1, <5>1
      <4>2. CASE c # b
        BY <2>6, <3>1, <4>2
      <4> QED
        BY <4>1, <4>2
    <3>2. PiecesLeft' = {x \in Batches \X (1 .. Pieces) : x[2] > Written(x[1])'}
      BY DEF PiecesLeft, Written, Pieces
    <3> QED
      BY <3>1, <3>2 DEF PiecesLeft
  <2>9. <<b, n>> \in PiecesLeft /\ <<b, n>> \notin PiecesLeft'
    <3>1. PiecesLeft' = {x \in Batches \X (1 .. Pieces) : x[2] > Written(x[1])'}
      BY DEF PiecesLeft, Written, Pieces
    <3>2. m + 1 > m /\ ~(m + 1 > m + 1) /\ n = m + 1
      BY <2>7
    <3> HIDE DEF n
    <3> QED
      BY <2>4, <2>5, <2>7, <3>1, <3>2 DEF PiecesLeft
  <2>10. Cardinality(PiecesLeft') < Cardinality(PiecesLeft)
    <3> HIDE DEF n
    <3> QED
      BY <2>8, <2>9, RankParts, FewerLeft
  <2>11. Rank'[3] = Rank[3]
    BY <1>3, <2>1
  <2> QED
    BY <1>2, <1>3, <2>10, <2>11 DEF Lower
<1> QED
  BY <1>4, <1>5

\* A process does only finitely many steps, whatever was asked of it and whatever fails: each
\* step lowers the rank, which cannot go on for ever (NoEndlessDescent).
THEOREM CommandDescends ==
    ASSUME IsFiniteSet(Batches)
    PROVE  Spec => [](Rank \in Ranks) /\ [][Lower(Rank', Rank)]_vars
<1>1. Rank \in Ranks
  <2>1. PlacesLeft + EventsLeft \in Nat
    BY RankParts
  <2> QED
    BY <2>1, RankParts DEF Rank, Ranks
<1>2. ASSUME WriteInv, [Next]_vars
      PROVE  [Lower(Rank', Rank)]_vars
  <2>1. CASE UNCHANGED vars
    BY <2>1
  <2>2. CASE \E b \in Batches : RunStep(b) \/ Answer(b) \/ Discard(b) \/ WriteEnds(b)
    BY <1>2, <2>2, BatchDescends
  <2>3. CASE \E b \in Batches : LockWriter(b) \/ WritePiece(b)
    BY <1>2, <2>3, WriterDescends
  <2>4. CASE \/ CheckSettings \/ CheckOutput \/ CreateClient \/ StartClient \/ Upload
             \/ StopClient \/ LoadStages \/ PrintSummary \/ Interrupt \/ Expire
             \/ \E e \in {"none", "canceled", "stage", "init", "export"} : RunReturns(e)
    BY <2>4, MainDescends
  <2> QED
    BY <1>2, <2>1, <2>2, <2>3, <2>4 DEF Next, Program, Collector, Exited
<1> QED
  BY <1>1, <1>2, ExitInvariance, PTL DEF Spec

\* main, or a goroutine with a batch in its hands, has a step to take: the guards of the
\* actions
BatchCanGo(b) ==
    \/ life[b] \in {"none", "queued", "ok", "failed"}
    \/ opts.dryRun /\ life[b] = "exporting" /\ (JSON => b \in writing \/ LockFree)

ProcessCanGo ==
    \/ pc \in Before \ {"upload"} \/ pc = "summary"
    \/ pc = "running" /\ \/ \E b \in Batches : BatchCanGo(b)
                         \/ \A b \in Batches : life[b] \notin Load!InFlight

\* main, or an exporter, waits for the collector's answer
CollectorIsAsked ==
    \/ pc = "upload"
    \/ pc = "running" /\ ~opts.dryRun /\ \E b \in Batches : life[b] = "exporting"

\* A process never waits for itself: until it has ended it has a step to take or waits for
\* the collector.  In a JSON dry run whoever waits for the writer waits for a batch that can
\* be written to its end.
THEOREM CommandNeverHangs == Spec => [](pc = "exited" \/ ProcessCanGo \/ CollectorIsAsked)
<1>1. FlowInv /\ WriteInv => pc = "exited" \/ ProcessCanGo \/ CollectorIsAsked
  <2> SUFFICES ASSUME FlowInv, WriteInv, pc # "exited", ~ProcessCanGo, ~CollectorIsAsked
               PROVE  FALSE
    OBVIOUS
  <2>1. pc = "running"
    BY DEF FlowInv, ProcessCanGo, CollectorIsAsked
  <2>2. /\ \A b \in Batches : ~BatchCanGo(b)
        /\ \E b \in Batches : life[b] \in Load!InFlight
    BY <2>1 DEF ProcessCanGo
  <2>3. PICK b \in Batches : life[b] \in Load!InFlight
    BY <2>2
  <2>4. life[b] = "exporting"
    BY <2>2, <2>3 DEF BatchCanGo, Load!InFlight
  <2>5. opts.dryRun /\ JSON /\ ~LockFree
    BY <2>1, <2>2, <2>4, CommandAssumption DEF CollectorIsAsked, BatchCanGo, FlowInv
  <2>6. PICK c \in writing : c \in Batches
    BY <2>5 DEF LockFree, WriteInv
  <2>7. life[c] = "exporting"
    BY <2>6 DEF WriteInv
  <2> QED
    BY <2>2, <2>5, <2>6, <2>7 DEF BatchCanGo
<1> QED
  BY <1>1, FlowInvariance, ExitInvariance, PTL
=============================================================================
