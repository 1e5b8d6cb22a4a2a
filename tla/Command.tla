------------------------------ MODULE Command ------------------------------
(***************************************************************************)
(* The process: main() of cmd/tercios, the preflight of internal/otlp and  *)
(* the dry run's exporters.  The settings are checked, then the signals    *)
(* are caught; a run that is not dry makes a client, starts it, uploads an *)
(* empty request and stops it; then the stages are loaded and the load run *)
(* takes place, of which this module uses only what LoadRun promises.  The *)
(* exporters of a JSON dry run write to one stream.  The file system, the  *)
(* collector and the user are external.                                    *)
(***************************************************************************)
EXTENDS ClientSettings

CONSTANTS
    Options,  \* the flags and environments a process may be started with
    Batches   \* bound: the batches a load run may generate

ASSUME CommandAssumption ==
    \A o \in Options : {o.any, o.dryRun, o.timeout, o.numbers, o.skip} \subseteq BOOLEAN

VARIABLES
    opts,         \* the flags and the environment
    pc,           \* what main does next
    interrupted,  \* SIGINT or SIGTERM was caught
    expired,      \* the preflight's export context is past its timeout
    client,       \* the preflight's client
    err,          \* the preflight's error, "none" if it is nil
    writing,      \* the batches whose export holds the writer's lock
    stdout,       \* what was written to stdout: pieces of lines and of the summary
    status,       \* the exit status, -1 before the end
    faults,       \* history: the preflight's steps that failed, of themselves, in order
    life, verdict \* the load run

Load == INSTANCE LoadRun

flow == <<opts, interrupted>>
preflight == <<expired, client, err, faults>>
out  == <<writing, stdout>>
load == <<life, verdict>>
vars == <<flow, pc, preflight, out, status, load>>

JSON == opts.dryRun /\ opts.output = "json"
Pieces == 2   \* bound: a line, or the summary, may reach the stream in so many writes
Written(b) == Cardinality({i \in DOMAIN stdout : stdout[i].of = b})

Init ==
    /\ opts \in Options /\ pc = "flags" /\ interrupted = FALSE
    /\ expired = FALSE /\ client = "none" /\ err = "none" /\ faults = <<>>
    /\ writing = {} /\ stdout = <<>> /\ status = -1
    /\ Load!Init

Exit(code) == pc' = "exited" /\ status' = code
Goto(next) == pc' = next /\ UNCHANGED status

-----------------------------------------------------------------------------
\* no flag at all, a bad variable or value: the process ends
CheckSettings ==
    /\ pc = "flags"
    /\ IF ~opts.any THEN Exit(2)
       ELSE IF EnvInvalid(opts) \/ ~Valid(opts) THEN Exit(1)
       ELSE Goto("output")
    /\ UNCHANGED <<flow, preflight, out, load>>

\* a signal ends the process until main has asked for it, then only cancels the context
Interrupt ==
    /\ pc # "exited" /\ ~interrupted
    /\ interrupted' = TRUE
    /\ IF pc = "flags" THEN Exit(130) ELSE UNCHANGED <<pc, status>>
    /\ UNCHANGED <<opts, preflight, out, load>>

CheckOutput ==
    /\ pc = "output"
    /\ IF opts.output = "other" \/ (opts.output = "json" /\ ~opts.dryRun) THEN Exit(1)
       ELSE Goto(IF opts.dryRun THEN "stages" ELSE "create")
    /\ UNCHANGED <<flow, preflight, out, load>>

-----------------------------------------------------------------------------
\* runPreflight.  The export context is done when it has expired or main's is cancelled.
ExportCtxDone == expired \/ interrupted

Expire ==
    /\ opts.timeout /\ ~expired /\ pc \in {"create", "start", "upload", "stop"}
    /\ expired' = TRUE
    /\ UNCHANGED <<flow, pc, client, err, faults, out, status, load>>

Fail(step) == err' = step /\ faults' = Append(faults, step)

CreateClient ==
    /\ pc = "create"
    /\ IF ClientInvalid(opts)
       THEN Fail("create") /\ Exit(1) /\ UNCHANGED client
       ELSE client' = "created" /\ Goto("start") /\ UNCHANGED <<err, faults>>
    /\ UNCHANGED <<flow, expired, out, load>>

\* the HTTP client does not start in a context that is done
StartClient ==
    /\ pc = "start"
    /\ \/ /\ ~(Protocol(opts) = "http" /\ ExportCtxDone)
          /\ client' = "started" /\ Goto("upload") /\ UNCHANGED <<err, faults>>
       \/ Fail("start") /\ Exit(1) /\ UNCHANGED client
    /\ UNCHANGED <<flow, expired, out, load>>

\* Mutated: a failed upload is only logged
UploadLogged ==
    /\ pc = "upload"
    /\ UNCHANGED faults \/ faults' = Append(faults, "export")
    /\ Goto("stop")
    /\ UNCHANGED <<flow, expired, client, err, out, load>>

\* the collector answers, or the export context is done
Upload ==
    /\ pc = "upload"
    /\ UNCHANGED <<err, faults>> \/ Fail("export")
    /\ Goto("stop")
    /\ UNCHANGED <<flow, expired, client, out, load>>

\* Mutated: the client is stopped only if the upload succeeded
StopUnlessFailed ==
    /\ pc = "stop"
    /\ \/ /\ err = "none" /\ client' = "stopped" /\ Goto("stages")
          /\ UNCHANGED <<err, faults>>
       \/ err # "none" /\ Exit(1) /\ UNCHANGED <<client, err, faults>>
    /\ UNCHANGED <<flow, expired, out, load>>

\* Mutated: the client is stopped under the export context
StopInExportCtx ==
    /\ pc = "stop"
    /\ client' = "stopped"
    /\ IF ExportCtxDone
       THEN err' = (IF err = "none" THEN "stop" ELSE err) /\ UNCHANGED faults
       ELSE UNCHANGED <<err, faults>>
    /\ IF err' = "none" THEN Goto("stages") ELSE Exit(1)
    /\ UNCHANGED <<flow, expired, out, load>>

\* the deferred Stop has a context of its own, and its error does not hide the export's
StopClient ==
    /\ pc = "stop"
    /\ client' = "stopped"
    /\ \/ UNCHANGED <<err, faults>>
       \/ /\ faults' = Append(faults, "stop")
          /\ err' = IF err = "none" THEN "stop" ELSE err
    /\ IF err' = "none" THEN Goto("stages") ELSE Exit(1)
    /\ UNCHANGED <<flow, expired, out, load>>

\* the strategy, the scenario files and the chaos policies are read after the preflight
LoadStages ==
    /\ pc = "stages"
    /\ Goto("running") \/ Exit(1)
    /\ UNCHANGED <<flow, preflight, out, load>>

-----------------------------------------------------------------------------
\* the load run, and the writer that the exporters of a JSON dry run share
Running == pc = "running" /\ UNCHANGED <<flow, pc, preflight, status>>

RunStep(b) ==
    /\ Running /\ UNCHANGED out
    /\ Load!Queue(b) \/ Load!Export(b) \/ Load!Tally(b) \/ Load!Drop(b)

\* ExportBatch of the OTLP client: the collector answers, or the context is done
Answer(b) == Running /\ ~opts.dryRun /\ Load!Answer(b) /\ UNCHANGED out

\* ExportBatch of a dry run that prints only the summary
Discard(b) ==
    Running /\ opts.dryRun /\ ~JSON /\ Load!Move(b, "exporting", "ok") /\ UNCHANGED out

\* Mutated: nobody waits for the lock
LockIgnored == TRUE

\* the mutex that NewDryRunExporterFactory gives to all its exporters
LockFree == writing = {}

\* writeJSONBatch: Lock, Encode, which may reach the stream in several writes, Unlock
LockWriter(b) ==
    /\ Running /\ JSON /\ life[b] = "exporting" /\ b \notin writing /\ LockFree
    /\ writing' = writing \cup {b}
    /\ UNCHANGED <<stdout, load>>

WritePiece(b) ==
    /\ Running /\ b \in writing /\ Written(b) < Pieces
    /\ stdout' = Append(stdout, [of |-> b, piece |-> Written(b) + 1])
    /\ UNCHANGED <<writing, load>>

\* Mutated: an error of the stream is dropped
WriteErrorDropped(b) ==
    /\ Running /\ b \in writing
    /\ Load!Move(b, "exporting", "ok")
    /\ writing' = writing \ {b}
    /\ UNCHANGED stdout

WriteEnds(b) ==
    /\ Running /\ b \in writing
    /\ \/ Written(b) = Pieces /\ Load!Move(b, "exporting", "ok")
       \/ Written(b) < Pieces /\ Load!Move(b, "exporting", "failed")
    /\ writing' = writing \ {b}
    /\ UNCHANGED stdout

\* Pipeline.Run returns; the exporters of a dry run always start
RunReturns(e) ==
    /\ pc = "running" /\ Goto("summary")
    /\ e = "canceled" => interrupted
    /\ e = "init" => ~opts.dryRun
    /\ Load!End(e)
    /\ UNCHANGED <<flow, preflight, out>>

\* The summary leaves stdout to the lines of a JSON dry run.  Nobody looks at the error of
\* fmt.Println: all of it is printed, or the beginning, or nothing.
PrintSummary ==
    /\ pc = "summary"
    /\ \E n \in IF JSON THEN {0} ELSE 0 .. Pieces :
          stdout' = stdout \o [i \in 1 .. n |-> [of |-> "summary", piece |-> i]]
    /\ Exit(IF verdict = "none" THEN 0 ELSE 1)
    /\ UNCHANGED <<flow, preflight, writing, load>>

Exited == pc = "exited" /\ UNCHANGED vars

\* what the process does by itself
Program ==
    \/ CheckSettings \/ CheckOutput \/ CreateClient \/ StartClient \/ StopClient
    \/ LoadStages \/ PrintSummary
    \/ \E b \in Batches :
          RunStep(b) \/ Discard(b) \/ LockWriter(b) \/ WritePiece(b) \/ WriteEnds(b)
    \/ \E e \in {"none", "canceled", "stage", "init", "export"} : RunReturns(e)

\* what the collector does, and the end of the context it is called in
Collector == Upload \/ \E b \in Batches : Answer(b)

Next == Program \/ Collector \/ Interrupt \/ Expire \/ Exited

Spec == Init /\ [][Next]_vars

\* Mutated: the calls are made in a context that the signal does not cancel
CallExpires == opts.timeout

\* the context of a call of the collector will be done
CallEnds == opts.timeout \/ interrupted

\* the process goes on, and a call of the collector returns when its context is done
Fairness == WF_vars(Program \/ (CallEnds /\ Collector))
FairSpec == Spec /\ Fairness

-----------------------------------------------------------------------------
\* The preflight reports its first failure, and reports one only if a step of it failed
\* of itself: an export context that ends between the answer and the stop fails nothing,
\* and the error of the stop hides no other.
FirstFaultReported == err = (IF faults = <<>> THEN "none" ELSE faults[1])

\* A client that the preflight started is stopped, whatever its upload answered, before
\* the process goes on or ends.
ClientStopped == client = "started" => pc \in {"upload", "stop"}

\* Nothing is generated or exported before a preflight that passed, and a dry run makes
\* no client.
PreflightFirst ==
    IF opts.dryRun THEN client = "none"
    ELSE (\E b \in Batches : life[b] # "none") => client = "stopped" /\ faults = <<>>

PieceAt(i, b, n) == i \in DOMAIN stdout /\ stdout[i] = [of |-> b, piece |-> n]
WholeAt(i, b) == \A n \in 1 .. Pieces : PieceAt(i + n - 1, b, n)

\* what is written at i is at the beginning of a line
BeginsLine(i) == i = 1 \/ stdout[i - 1].piece = Pieces

\* what is written at i continues a line that a failed export has begun
AfterTorn(i) ==
    i > 1 /\ \E c \in Batches : /\ PieceAt(i - 1, c, 1)
                              /\ life[c] \in {"failed", "countedFailed", "lost"}

\* In a JSON dry run a batch whose export succeeded is on stdout whole and in one piece,
\* however many exporters write, and begins a line; the one exception is a write that fails
\* midway: its export fails, and the next batch continues its line.  Nothing but batches is
\* on stdout.
LinesUnbroken ==
    JSON => /\ \A b \in Batches : life[b] \in {"ok", "countedOk"} =>
                  \E i \in DOMAIN stdout : WholeAt(i, b) /\ (BeginsLine(i) \/ AfterTorn(i))
            /\ \A i \in DOMAIN stdout : stdout[i].of \in Batches

\* A process that exits with 0 has exported and counted every batch it generated; stdout of
\* a JSON dry run then is the lines of those batches, each on a line of its own, and nothing
\* else.  (It says nothing of a summary: an error of its printing changes no status.)
ExitZeroMeansAll ==
    status = 0 =>
        LET done == {b \in Batches : life[b] = "countedOk"}
        IN  /\ \A b \in Batches : life[b] \in {"none", "countedOk"}
            /\ JSON => /\ Len(stdout) = Pieces * Cardinality(done)
                       /\ \A b \in done : \E i \in DOMAIN stdout : WholeAt(i, b) /\ BeginsLine(i)

\* A client of a run that is not insecure exists only if the roots of --tls-ca-cert could be
\* read.  If it speaks TLS it trusts them, whatever the environment names, verifies unless
\* --tls-skip-verify was given, and shows a certificate only with the key that was given
\* with it.  It speaks TLS, unless a variable asks the SDK for plain text: a gRPC client
\* then still does if one of the two flags was given, an HTTP client does not.
SecureAsAsked ==
    client # "none" /\ ~Insecure(opts) =>
        /\ opts.ca # "bad"
        /\ \A tls \in ClientTLS(opts) :
              /\ opts.ca # "unset" => tls.roots = "flag"
              /\ tls.skip => opts.skip
              /\ \A p \in tls.pair : p.cert = p.key
        /\ ClientTLS(opts) = {} =>
              EnvPlain(opts) /\ (Protocol(opts) = "http" \/ (opts.ca = "unset" /\ ~opts.skip))

\* A signal ends the process, whatever it is doing and whoever does not answer.
InterruptStops == interrupted ~> pc = "exited"

\* "Both flags are ignored when --insecure is set" (README.md): without that flag, and
\* no variable in its place, a client is made with the TLS flags that were given.
TLSFlagsAreUsed ==
    /\ client # "none" /\ opts.insecure = "unset" /\ ~Given(FirstNonEmpty(opts.insecureEnv))
    /\ opts.ca # "unset" \/ opts.skip
    => \E tls \in ClientTLS(opts) :
          (opts.ca # "unset" => tls.roots = "flag") /\ (opts.skip => tls.skip)
=============================================================================
