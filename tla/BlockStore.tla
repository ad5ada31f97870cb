----------------------------- MODULE BlockStore -----------------------------
(***************************************************************************)
(* What a block device promises to the target: a transaction takes effect  *)
(* at one instant between its request and its response.  A write replaces  *)
(* the whole sector, a read returns all of it as it is at that instant.    *)
(***************************************************************************)
CONSTANTS
  Tag,       \* a transaction in flight is known by its tag
  Content,   \* what a sector may hold
  Blank      \* what it holds before the first write

VARIABLES
  store,     \* what the sector holds
  phase,     \* per tag: "free", "asked" or "done"
  order,     \* per tag: the content to write, or Blank for a read
  writing,   \* per tag: whether the transaction is a write
  answer     \* per tag: what a read found

Init ==
  /\ store = Blank
  /\ phase = [t \in Tag |-> "free"]
  /\ order \in [Tag -> Content]
  /\ writing \in [Tag -> BOOLEAN]

\* Any number of transactions may be requested and answered in one step: the
\* target and the device exchange tokens for a whole cycle at a time.
Exchange ==
  \E asked, answered \in SUBSET Tag :
    /\ \A t \in answered : phase[t] = "done"
    /\ \A t \in asked : phase[t] = "free"
    /\ phase' = [t \in Tag |-> IF t \in asked THEN "asked"
                               ELSE IF t \in answered THEN "free" ELSE phase[t]]
    /\ \A t \in Tag \ (asked \cup answered) :
         order'[t] = order[t] /\ writing'[t] = writing[t]
    /\ \A t \in Tag : phase'[t] = "done" => answer'[t] = answer[t]
    /\ store' = store

\* The transaction of t takes effect.
TakeEffect(t) ==
  /\ phase[t] = "asked"
  /\ phase' = [phase EXCEPT ![t] = "done"]
  /\ store' = IF writing[t] THEN order[t] ELSE store
  /\ ~writing[t] => answer'[t] = store
  /\ \A u \in Tag \ {t} : phase[u] = "done" => answer'[u] = answer[u]
  /\ UNCHANGED <<order, writing>>

Next == Exchange \/ \E t \in Tag : TakeEffect(t)

BlockStoreSpec == Init /\ [][Next]_<<store, phase, order, writing, answer>>
=============================================================================
