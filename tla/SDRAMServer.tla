----------------------------- MODULE SDRAMServer -----------------------------
(***************************************************************************)
(* What the SDRAM controller promises a client that makes single accesses: *)
(* a memory that takes one transaction at a time into a one-place queue,   *)
(* performs each exactly once and in the order taken, and hands out the    *)
(* word every read found, in the order of the reads.  There is no chip, no *)
(* row to open and no delay line here; one step may take a transaction,    *)
(* perform the queued one and hand out an earlier word, as one edge of the *)
(* controller's clock may.                                                 *)
(***************************************************************************)
EXTENDS Integers, Sequences

CONSTANTS
  Lanes,          \* byte lanes of a word
  Transactions,   \* what a client may ask for
  FirstContents,  \* the words held before the first transaction
  Nothing         \* not a word: the step handed nothing out

VARIABLES
  contents,   \* the word in every cell
  queue,      \* transactions taken and not performed yet: at most one
  owed,       \* words of performed reads not handed out yet
  handed      \* the word the last step handed out

serverVars == <<contents, queue, owed, handed>>

ServerInit ==
  /\ contents = FirstContents
  /\ queue = <<>>
  /\ owed = <<>>
  /\ handed = Nothing

CellOf(tx) == <<tx.bank, tx.row, tx.col>>

Effect(tx) ==
  IF tx.wr
  THEN [contents EXCEPT ![CellOf(tx)] =
          [x \in Lanes |-> IF x \in tx.lanes THEN tx.data[x] ELSE @[x]]]
  ELSE contents

Answer(tx) == IF tx.wr THEN <<>> ELSE <<contents[CellOf(tx)]>>

\* Hand out the word owed longest, or none; `answer' joins the words owed.
HandOut(answer) ==
  \/ owed # <<>> /\ handed' = Head(owed) /\ owed' = Tail(owed) \o answer
  \/ handed' = Nothing /\ owed' = owed \o answer

\* The queue, or what is left of it, may take one transaction if empty.
Take(rest) ==
  \/ queue' = rest
  \/ rest = <<>> /\ Len(queue') = 1 /\ Head(queue') \in Transactions

Perform ==
  /\ queue # <<>>
  /\ contents' = Effect(Head(queue))
  /\ HandOut(Answer(Head(queue)))
  /\ Take(Tail(queue))

Wait == contents' = contents /\ HandOut(<<>>) /\ Take(queue)

ServerNext == Perform \/ Wait

ServerSpec == ServerInit /\ [][ServerNext]_serverVars
=============================================================================
