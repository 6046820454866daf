------------------------------ MODULE Sandbox ------------------------------
(***************************************************************************)
(* One run of a skill in a child process (sandbox.ts).  Four runtimes share *)
(* the shape: refuse a path outside the skills directory, start the child, *)
(* arm a timer that sends SIGTERM, and settle on the first of its exit and *)
(* error events.  The child and its event order are Node's: output that    *)
(* was written may arrive after the exit event, a SIGTERM may be ignored,  *)
(* and an error event may come from a child that still runs.               *)
(***************************************************************************)
EXTENDS Integers, Sequences, FiniteSets, SequencesExt

CONSTANTS
    Segments,           \* names a path is made of, ".." among them
    MaxDepth,           \* bound: longest path asked for
    AllowedDir,         \* cfg.allowedDir, an absolute path
    MaxChunks           \* bound: pieces of output a child writes

ASSUME SandboxAssumption ==
    /\ MaxDepth \in Nat /\ MaxChunks \in Nat
    /\ AllowedDir \in Seq(Segments \ {"..", "."})

VARIABLE sandbox        \* the run: its promise, child process and timers

Runtimes == {"node", "wasm", "docker", "deno"}
Paths == UNION {[1..n -> Segments] : n \in 0..MaxDepth}

(* path.resolve and path.normalize: "." is dropped, ".." drops the last    *)
(* name before it that is still there and never climbs above the root.  So *)
(* a name stays unless, up to some later point, more ".." than names have  *)
(* followed it.                                                            *)
normalize(path) ==
    LET names == {i \in DOMAIN path : path[i] \notin {".", ".."}}
        climbs == {i \in DOMAIN path : path[i] = ".."}
        after(S, i, j) == Cardinality({k \in S : i < k /\ k <= j})
        kept == {i \in names : \A j \in climbs : after(climbs, i, j) <= after(names, i, j)}
    IN  [n \in 1..Cardinality(kept) |->
             path[CHOOSE i \in kept : Cardinality({k \in kept : k <= i}) = n]]

(* path.relative between two normalized absolute paths. *)
relative(from, to) ==
    LET common == CHOOSE k \in 0..Len(from) :
                     /\ k <= Len(to)
                     /\ \A i \in 1..k : from[i] = to[i]
                     /\ k < Len(from) /\ k < Len(to) => from[k + 1] # to[k + 1]
    IN  [i \in 1..(Len(from) - common) |-> ".."] \o SubSeq(to, common + 1, Len(to))

(* String.startsWith('..'): the test looks at characters, so a name that   *)
(* begins with two dots is refused with the parent directory.              *)
StartsWithDots(path) == path # <<>> /\ path[1] \in {"..", "..x"}

(* Faulty: the path is compared as it is written. *)
isPathAllowedUnresolved(target) ==
    LET rel == relative(AllowedDir, target)
    IN  rel = <<>> \/ ~StartsWithDots(rel)

isPathAllowed(target) ==
    LET rel == relative(AllowedDir, normalize(target))
    IN  rel = <<>> \/ ~StartsWithDots(rel)

NoRun == [phase |-> "idle", runtime |-> "node", path |-> <<>>, child |-> "none", code |-> 0,
          timer |-> FALSE, forkTimer |-> FALSE, signalled |-> FALSE,
          wrote |-> 0, arrived |-> 0, result |-> "none", output |-> 0, settles |-> 0]

SandboxInit == sandbox = NoRun

(* A check before the promise is made answers at once. *)
Refused(r, path) == [NoRun EXCEPT !.phase = "settled", !.runtime = r, !.path = path,
                                  !.result = "refused", !.settles = 1]
(* fork and spawn return a child; the timer of the promise is armed. *)
Started(r, path) == [NoRun EXCEPT !.phase = "running", !.runtime = r, !.path = path,
                                  !.child = "up", !.timer = TRUE]

Runnable(path, exists) == isPathAllowed(path) /\ exists

ExecuteWasm(path, exists) ==
    /\ sandbox = NoRun
    /\ sandbox' = IF Runnable(path, exists) THEN Started("wasm", path) ELSE Refused("wasm", path)

(* getDockerCommand throws for a file type no image is known for. *)
ExecuteDocker(path, exists, known) ==
    /\ sandbox = NoRun
    /\ sandbox' = IF Runnable(path, exists) /\ known THEN Started("docker", path)
                  ELSE Refused("docker", path)

ExecuteDeno(path, exists) ==
    /\ sandbox = NoRun
    /\ sandbox' = IF Runnable(path, exists) THEN Started("deno", path) ELSE Refused("deno", path)

(* Faulty: fork is given no timeout of its own. *)
ExecuteNodeUntimed(path, exists) ==
    /\ sandbox = NoRun
    /\ sandbox' = IF Runnable(path, exists) THEN Started("node", path) ELSE Refused("node", path)

(* fork is also given the timeout, which outlives the promise's timer. *)
ExecuteNode(path, exists) ==
    /\ sandbox = NoRun
    /\ sandbox' = IF Runnable(path, exists)
                  THEN [Started("node", path) EXCEPT !.forkTimer = TRUE]
                  ELSE Refused("node", path)

(* resolveOnce: the first event settles the promise and clears its timer.  *)
resolveOnce(s, result, output) ==
    IF s.phase = "settled" THEN s
    ELSE [s EXCEPT !.phase = "settled", !.timer = FALSE, !.result = result,
                   !.output = output, !.settles = @ + 1]

ChildWrites ==
    /\ sandbox.child = "up" /\ sandbox.wrote < MaxChunks
    /\ sandbox' = [sandbox EXCEPT !.wrote = @ + 1]

(* A data or message event; it may come after the exit event. *)
OutputArrives ==
    /\ sandbox.arrived < sandbox.wrote
    /\ sandbox' = [sandbox EXCEPT !.arrived = @ + 1]

TimeoutFires ==
    /\ sandbox.timer
    /\ sandbox' = [sandbox EXCEPT !.timer = FALSE, !.signalled = TRUE]

(* The timeout fork was given sends the signal too. *)
ForkTimeoutFires ==
    /\ sandbox.child = "up" /\ sandbox.forkTimer
    /\ sandbox' = [sandbox EXCEPT !.forkTimer = FALSE, !.signalled = TRUE]

(* The exit event: code 0 is success, even after the timeout's SIGTERM.    *)
ChildExits(code) ==
    /\ sandbox.child = "up"
    /\ sandbox' = resolveOnce([sandbox EXCEPT !.child = "exited", !.code = code, !.forkTimer = FALSE],
                              IF code = 0 THEN "success" ELSE "failure",
                              IF code = 0 THEN sandbox.arrived ELSE 0)

(* The error event of a child that could not be started. *)
SpawnFails ==
    /\ sandbox.child = "up" /\ sandbox.wrote = 0 /\ ~sandbox.signalled
    /\ sandbox' = resolveOnce([sandbox EXCEPT !.child = "none", !.forkTimer = FALSE], "failure", 0)

(* The error event of a child that runs: the signal could not be sent, or  *)
(* (fork only) child.send found the channel closed.                        *)
ErrorWhileUp ==
    /\ sandbox.child = "up"
    /\ sandbox.signalled \/ sandbox.runtime = "node"
    /\ sandbox' = resolveOnce(sandbox, "failure", 0)

SandboxNext ==
    \/ \E path \in Paths, exists \in BOOLEAN :
          \/ ExecuteWasm(path, exists)
          \/ ExecuteDeno(path, exists)
          \/ ExecuteNode(path, exists)
          \/ \E known \in BOOLEAN : ExecuteDocker(path, exists, known)
    \/ ChildWrites \/ OutputArrives \/ TimeoutFires \/ ForkTimeoutFires
    \/ \E code \in {0, 1} : ChildExits(code)
    \/ SpawnFails \/ ErrorWhileUp

SandboxTypeOK ==
    sandbox \in [phase : {"idle", "running", "settled"}, runtime : Runtimes, path : Paths,
                 child : {"none", "up", "exited"}, code : {0, 1}, timer : BOOLEAN,
                 forkTimer : BOOLEAN, signalled : BOOLEAN, wrote : 0..MaxChunks,
                 arrived : 0..MaxChunks, result : {"none", "refused", "success", "failure"},
                 output : 0..MaxChunks, settles : 0..1]

(* What runs lies inside the skills directory, however its path is written: *)
(* isPathAllowed agrees with the prefix relation on resolved paths.        *)
RunsInsideSkills ==
    sandbox.child # "none" => IsPrefix(AllowedDir, normalize(sandbox.path))

(* A child that still runs has somebody left to stop it: the promise's     *)
(* timer, fork's own, or a SIGTERM already sent.  Settling on an error     *)
(* event clears the first of them.                                         *)
ChildIsWatched ==
    sandbox.child = "up" => sandbox.timer \/ sandbox.forkTimer \/ sandbox.signalled

(* The promise is settled once, and success means the child ended with 0.  *)
SettledByItsChild ==
    /\ sandbox.settles = (IF sandbox.phase = "settled" THEN 1 ELSE 0)
    /\ sandbox.result = "success" => sandbox.child = "exited" /\ sandbox.code = 0
    /\ sandbox.phase = "settled" => ~sandbox.timer
=============================================================================
