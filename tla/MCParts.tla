------------------------------ MODULE MCParts -------------------------------
(***************************************************************************)
(* Parts of the program that share nothing, each model-checked on its own: *)
(* a behaviour is one of the part it starts with, the others stand still.  *)
(***************************************************************************)
EXTENDS PoolInterface, MinerParts, JsonHashtable

VARIABLES
    part,                                                    \* the part that runs
    heap, held, leaked, freedUse, calls                      \* JsonValues

valueVars == <<heap, held, leaked, freedUse, calls>>

\* Every assignment of qualities with at most two nonces that are no misses.
MCQualities ==
    {[n \in 0..Top |-> IF n \in DOMAIN q THEN q[n] ELSE "miss"] :
       q \in UNION {[S -> {"good", "equal", "bad"}] :
                      S \in {S \in SUBSET (0..Top) : Cardinality(S) <= 2}}}

\* Three keys that meet in one bucket of three, and two of them in one of two.
MCHash(key) == CASE key = "a" -> 0 [] key = "b" -> 3 [] key = "c" -> 6

MCPrimes == <<2, 3, 5>>

Json == INSTANCE JsonValues WITH
          Ids <- 1..5, True <- 0, NoValue <- -1, Keys <- {"k"}, Scalars <- {0, 1},
          Kinds <- {"string"}, InitialSize <- 1, MaxEntries <- 2, MaxCalls <- 5

ScanInit ==
    IF part = "scan" THEN Scan!Init
    ELSE /\ kind = "keccak256" /\ quality = [n \in 0..Top |-> "miss"] /\ first = 0 /\ max = 0
         /\ throughput = 0 /\ nonce = 0 /\ slots = <<Top, Top>> /\ pc = "call" /\ ret = 0
         /\ hashesDone = 0 /\ restart = FALSE /\ tested = {} /\ crowded = FALSE /\ wrapped = FALSE

PartsInit ==
    /\ part \in {"pool", "hashes", "alpha", "scan", "table", "json"}
    /\ PoolInit /\ Hashes!Init /\ Alpha!Init /\ ScanInit /\ TableInit /\ Json!Init

PoolStep == part = "pool" /\ Next
            /\ UNCHANGED <<countVars, alphaVars, scanVars, tableVars, valueVars>>
HashesStep == part = "hashes" /\ Hashes!Next
              /\ UNCHANGED <<vars, alphaVars, scanVars, tableVars, valueVars>>
AlphaStep == part = "alpha" /\ Alpha!Next
             /\ UNCHANGED <<vars, countVars, scanVars, tableVars, valueVars>>
ScanStep == part = "scan" /\ Scan!Next
            /\ UNCHANGED <<vars, countVars, alphaVars, tableVars, valueVars>>
TableStep == part = "table" /\ TableNext
             /\ UNCHANGED <<vars, countVars, alphaVars, scanVars, valueVars>>
JsonStep == part = "json" /\ Json!Next
            /\ UNCHANGED <<vars, countVars, alphaVars, scanVars, tableVars>>

PartsNext ==
    /\ PoolStep \/ HashesStep \/ AlphaStep \/ ScanStep \/ TableStep \/ JsonStep
    /\ UNCHANGED part

partsVars == <<part, vars, countVars, alphaVars, scanVars, tableVars, valueVars>>

\* The fairness of the pool interface, and that of the scans: the thread runs.
PartsFairness ==
    /\ WF_vars(part = "pool" /\ Pop) /\ WF_vars(part = "pool" /\ LogStep)
    /\ \A s \in Shares : WF_vars(part = "pool" /\ (Log(s) \/ Submit(s)))
    /\ WF_scanVars(part = "scan" /\ Scan!Launch) /\ WF_scanVars(part = "scan" /\ Scan!Check)

PartsSpec == PartsInit /\ [][PartsNext]_partsVars /\ PartsFairness

-----------------------------------------------------------------------------
(* The properties of the parts, under their names; those of the pool       *)
(* interface and of the hash table are there already.                                            *)

\* Every variable of every part keeps its type.
PartsTypeOK ==
    TypeOK /\ MinerPartsTypeOK /\ TableTypeOK /\ Json!TypeOK

\* A value's count is the number of references to it; json_object_update reads no freed
\* argument that its caller owns; and an array fits its table (value.c).
ValuesAreSound == Json!RefcountsAreExact /\ Json!OwnArgumentsSurvive /\ Json!ArraysFitTheirTable

\* A deep copy equals its original and shares nothing with it (json_deep_copy).
DeepCopiesAreEqual == Json!DeepCopiesAreEqual
=============================================================================
