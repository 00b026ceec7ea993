----------------------------- MODULE SealedVault -----------------------------
(***************************************************************************)
(* What the vault promises, without DEKs, probes, processes or             *)
(* transactions: a store sealed by one key at a time.  Changing the seal   *)
(* never changes which secrets the current seal opens.                     *)
(***************************************************************************)
CONSTANTS Slots, Keys, NoSeal

VARIABLES
  seal,      \* the key that opens the vault, NoSeal before it is initialised
  stored,    \* the slots that hold a secret
  readable   \* the slots whose secret the current seal opens

Init == seal = NoSeal /\ stored = {} /\ readable = {}

Initialise(k) == seal = NoSeal /\ seal' = k /\ UNCHANGED <<stored, readable>>

Reseal(k) ==
  /\ seal # NoSeal
  /\ k # seal
  /\ seal' = k
  /\ UNCHANGED <<stored, readable>>

Store(s) ==
  /\ seal # NoSeal
  /\ stored' = stored \union {s}
  /\ readable' = readable \union {s}
  /\ UNCHANGED seal

Remove(s) ==
  /\ stored' = stored \ {s}
  /\ readable' = readable \ {s}
  /\ UNCHANGED seal

Next == \/ \E k \in Keys : Initialise(k) \/ Reseal(k)
        \/ \E s \in Slots : Store(s) \/ Remove(s)

Spec == Init /\ [][Next]_<<seal, stored, readable>>
=============================================================================
