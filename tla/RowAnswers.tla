----------------------------- MODULE RowAnswers -----------------------------
(***************************************************************************)
(* What a DECIDE statement promises its caller, with the rows' order, the  *)
(* threads, the model and its columns left out: one acceptable assignment  *)
(* is fixed, then every input row comes back exactly once with its own     *)
(* values, in any order and in any pieces; or the statement ends without   *)
(* an answer and delivers no further row.                                  *)
(***************************************************************************)
EXTENDS Integers, Sequences, FiniteSets

CONSTANTS RowsOf(_),        \* the input rows of a question
          Acceptable(_, _), \* what counts as an answer to it
          Answerable(_),    \* the question has a meaning on its data, and an answer
          Fits(_, _)        \* an answer's values fit the output columns

VARIABLES question, answer, delivered, status

raVars == <<question, answer, delivered, status>>

NoAnswer == <<>>

RAInit == /\ answer = NoAnswer
          /\ delivered = <<>>
          /\ status = "asked"

\* The whole assignment is settled before the first row is delivered.
Answer == /\ status = "asked"
          /\ status' = "answered"
          /\ DOMAIN answer' = RowsOf(question)
          /\ Acceptable(question, answer')
          /\ UNCHANGED <<question, delivered>>

\* Some rows not delivered yet, each with the values the answer gives it.
Deliver == /\ status = "answered"
           /\ Len(delivered') > Len(delivered)
           /\ SubSeq(delivered', 1, Len(delivered)) = delivered
           /\ \A k \in (Len(delivered) + 1)..Len(delivered') :
                /\ delivered'[k].row \in RowsOf(question)
                /\ delivered'[k].vals = answer[delivered'[k].row]
                /\ \A j \in 1..(k - 1) : delivered'[j].row # delivered'[k].row
           /\ UNCHANGED <<question, answer, status>>

Finish == /\ status = "answered" \/ RowsOf(question) = {}
          /\ {delivered[k].row : k \in 1..Len(delivered)} = RowsOf(question)
          /\ status' = "finished"
          /\ UNCHANGED <<question, answer, delivered>>

\* Only when there is nothing to answer with, or a value does not fit its column.
GiveUp == /\ \/ status = "asked" /\ ~Answerable(question)
             \/ status = "answered" /\ ~Fits(question, answer)
          /\ status' = "none"
          /\ UNCHANGED <<question, answer, delivered>>

RANext == Answer \/ Deliver \/ Finish \/ GiveUp

RASpec == RAInit /\ [][RANext]_raVars
=============================================================================
