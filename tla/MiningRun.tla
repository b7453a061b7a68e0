----------------------------- MODULE MiningRun ------------------------------
(***************************************************************************)
(* What the addon promises to JavaScript, whatever its threads do.         *)
(*                                                                         *)
(* A run, once started, can only end with a solution found in that run,    *)
(* the callback gets that solution, and nothing happens after the process  *)
(* has begun to exit.  What the solution hashes ("buffer": the challenge   *)
(* and address) and the level it meets ("target") are those set last, if   *)
(* they were set while no run was under way.  Of a slot that was last set  *)
(* during a run, this one or an earlier one, the promise is only that it   *)
(* is a value the setters have given at some time: the double buffers of   *)
(* the solvers can bring an older one back.                                *)
(***************************************************************************)
CONSTANTS
    Nonces,   \* solutions
    Works,    \* challenge and address, as JavaScript may set them
    Levels,   \* difficulty targets, as JavaScript may set them
    None      \* no solution

Slots == {"buffer", "target"}

Values(s) == IF s = "buffer" THEN Works ELSE Levels

\* A value for each slot.
Job(w, l) == [s \in Slots |-> IF s = "buffer" THEN w ELSE l]

Jobs == {Job(w, l) : w \in Works, l \in Levels}

VARIABLES
    phase,    \* "idle", "running", "ended" or "halted"
    job,      \* the values set last
    past,     \* the values of each slot set so far
    late,     \* the slots that were last set while a run was under way
    outcome   \* the solution of an ended run

vars == <<phase, job, past, late, outcome>>

Init ==
    /\ phase = "idle"
    /\ job \in Jobs
    /\ past = [s \in Slots |-> {job[s]}]
    /\ late = {}
    /\ outcome = None

Set(s, v) ==
    /\ phase # "halted"
    /\ job' = [job EXCEPT ![s] = v]
    /\ past' = [past EXCEPT ![s] = @ \cup {v}]
    /\ late' = IF phase = "running" THEN late \cup {s} ELSE late \ {s}
    /\ UNCHANGED <<phase, outcome>>

Start ==
    /\ phase = "idle"
    /\ phase' = "running"
    /\ UNCHANGED <<job, past, late, outcome>>

\* What a solution of this run may be for.
Possible(s) == IF s \in late THEN past[s] ELSE {job[s]}

\* Nonce n hashes the challenge and address w and meets the target l.
End(n, w, l) ==
    /\ phase = "running"
    /\ w \in Possible("buffer")
    /\ l \in Possible("target")
    /\ phase' = "ended"
    /\ outcome' = [nonce |-> n, hashed |-> w, met |-> l]
    /\ UNCHANGED <<job, past, late>>

Deliver ==
    /\ phase = "ended"
    /\ phase' = "idle"
    /\ outcome' = None
    /\ UNCHANGED <<job, past, late>>

Halt ==
    /\ phase # "halted"
    /\ phase' = "halted"
    /\ outcome' = None
    /\ UNCHANGED <<job, past, late>>

Next ==
    \/ \E s \in Slots : \E v \in Values(s) : Set(s, v)
    \/ Start
    \/ \E n \in Nonces, w \in Works, l \in Levels : End(n, w, l)
    \/ Deliver
    \/ Halt

Spec == Init /\ [][Next]_vars
=============================================================================
