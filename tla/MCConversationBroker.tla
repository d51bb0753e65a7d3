-------------------------- MODULE MCConversationBroker --------------------------
(* Instances of ConversationBroker for TLC. *)
EXTENDS ConversationBroker, TLC

CONSTANTS c1, r1

OneChat    == {c1}
OneAuto    == c1 :> "auto"
OneQueued  == c1 :> "queue"
OneRequest == r1 :> c1   \* which message a request carries

\* Steps that change something, taken as one action: this instance has few of the requests and faults that
\* Operations can add, and MCBrokerSafety has instances of them.
Change == <<Next>>_vars
LiveSpec == Init /\ [][Change]_vars /\ Fairness
=============================================================================
