----------------------------- MODULE PathMutex -----------------------------
(***************************************************************************)
(* What lockManager.c promises its callers: one mutex for every path. A    *)
(* thread asks for the lock of a path, has it alone, and gives it back.    *)
(***************************************************************************)
CONSTANTS Threads, Keys

VARIABLES
  want,    (* want[t]: the path t asks for or has the lock of.               *)
  state    (* state[t]: "out", "waiting" or "in".                            *)

pvars == << want, state >>

PInit ==
  /\ want \in [Threads -> Keys]
  /\ state = [t \in Threads |-> "out"]

Ask(t) ==
  /\ state[t] = "out"
  /\ \E k \in Keys : want' = [want EXCEPT ![t] = k]
  /\ state' = [state EXCEPT ![t] = "waiting"]

Enter(t) ==
  /\ state[t] = "waiting"
  /\ \A u \in Threads : state[u] = "in" => want[u] # want[t]
  /\ state' = [state EXCEPT ![t] = "in"]
  /\ UNCHANGED want

Leave(t) ==
  /\ state[t] = "in"
  /\ state' = [state EXCEPT ![t] = "out"]
  /\ UNCHANGED want

PNext == \E t \in Threads : Ask(t) \/ Enter(t) \/ Leave(t)

PSpec == PInit /\ [][PNext]_pvars
=============================================================================
