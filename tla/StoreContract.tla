--------------------------- MODULE StoreContract ---------------------------
(***************************************************************************)
(* What LevelDB promises of the writes it is given (doc/index.md, "Atomic  *)
(* Updates" and "Synchronous Writes", as DBImpl keeps it): a write that    *)
(* returned is there until the machine crashes, and one that returned with *)
(* sync is there after that as well.  Nothing else takes writes away but   *)
(* DestroyDB, and I/O errors: they put writes at risk, and those may go.   *)
(***************************************************************************)
EXTENDS Naturals

CONSTANT Id  \* the writes

VARIABLES
  content, \* the writes a reader sees, or would see if the database were opened
  acked,   \* those that returned ok
  sure,    \* those that returned ok with sync
  risk,    \* those that an I/O error may have lost
  crashes  \* crashes that may still come

cvars == <<content, acked, sure, risk, crashes>>

CInit == content = {} /\ acked = {} /\ sure = {} /\ risk = {} /\ crashes \in Nat

Show ==
  /\ content' \in SUBSET Id /\ content \ risk \subseteq content'
  /\ UNCHANGED <<acked, sure, risk, crashes>>

Ack ==
  /\ acked' \in SUBSET (acked \cup content) /\ acked \subseteq acked'
  /\ sure' \in SUBSET (sure \cup acked') /\ sure \subseteq sure'
  /\ UNCHANGED <<content, risk, crashes>>

Expose ==
  /\ risk' \in SUBSET Id
  /\ UNCHANGED <<content, acked, sure, crashes>>

Crash ==
  /\ crashes > 0 /\ crashes' = crashes - 1
  /\ content' \in SUBSET Id /\ sure \ risk \subseteq content'
  /\ acked' = acked \cap content'
  /\ UNCHANGED <<sure, risk>>

Destroy ==
  /\ content' = {} /\ acked' = {} /\ sure' = {} /\ risk' = {}
  /\ UNCHANGED crashes

CNext == Show \/ Ack \/ Expose \/ Crash \/ Destroy

CSpec == CInit /\ [][CNext]_cvars
=============================================================================
