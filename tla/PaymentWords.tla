---------------------------- MODULE PaymentWords ----------------------------
(***************************************************************************)
(* How an answer of ioTec about a collection is read.                      *)
(* normalizePaymentStatus (src/internal/payments/service.go) looks for     *)
(* fragments in the answer's word, "paid" ones first, so a word is here    *)
(* the set of those fragments it contains: "Success" is {"success"},       *)
(* "unpaid" is {"paid"}, "SentToVendor" is {}.  Which words ioTec has is   *)
(* nowhere in the repository; a model says which ones it assumes.          *)
(***************************************************************************)
CONSTANT Says  \* what ioTec has done about a collection |-> the words it may answer

PaidFragments == {"completed", "paid", "success"}

FailedFragments == {"failed", "invalid", "cancelled", "canceled", "reversed"}

Outcomes == {"pending", "paid", "failed", "reversed"}

\* ioTec has, or had, the customer's money.
Taken == {"paid", "reversed"}

ASSUME WordsAssumption == Says \in [Outcomes -> SUBSET SUBSET (PaidFragments \union FailedFragments)]

Mentions(word, fragments) == word \intersect fragments # {}

\* Mutant: an unknown word counts as a payment.
PaidUnlessFailed(word) == IF Mentions(word, FailedFragments) THEN "failed" ELSE "paid"

NormalizePaymentStatus(word) ==
  CASE Mentions(word, PaidFragments) -> "paid"
    [] ~Mentions(word, PaidFragments) /\ Mentions(word, FailedFragments) -> "failed"
    [] OTHER -> "unpaid"

\* No word ioTec uses says of money it did not take that it was paid, or of money it took that it was
\* not.  The code needs this and cannot know it: "unpaid" and "unsuccessful" would be such words.
PlainWords ==
  \A outcome \in Outcomes : \A word \in Says[outcome] :
    /\ NormalizePaymentStatus(word) = "paid" => outcome \in Taken
    /\ NormalizePaymentStatus(word) = "failed" => outcome \in {"failed", "reversed"}
=============================================================================
