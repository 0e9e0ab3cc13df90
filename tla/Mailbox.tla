------------------------------- MODULE Mailbox -------------------------------
(* What a conversation promises to somebody who types into it: each message  *)
(* waits until it is read, or its sender takes it back.  What was read stays *)
(* read, unless an Esc discards it, and what came back does not return.  The *)
(* promise has two limits.  A message may go astray: while it waits, or with *)
(* the one an Esc discards, when it got behind that one.  And a message may  *)
(* get a second copy and be read again; of that one nothing is promised.     *)
CONSTANT Messages

VARIABLE box    \* where each message is

Init == box = [m \in Messages |-> "unsent"]

(* A message is accepted: it is read at once, or it waits.                   *)
Accept(m) ==
    /\ box[m] = "unsent"
    /\ box' \in { [box EXCEPT ![m] = b] : b \in {"waiting", "read"} }

Read(m) ==
    /\ box[m] = "waiting"
    /\ box' = [box EXCEPT ![m] = "read"]

\* An Esc discards a message that was read, or one that may be read again.
Discards(back) ==
    \/ \E m \in back : box[m] = "read"
    \/ \E m \in Messages : box[m] = "repeated"

(* Messages that wait come back or go astray; at most one that was read      *)
(* comes back with them, and what was read goes astray only with it.  Others *)
(* get a second copy.                                                        *)
Drop(back, gone, again) ==
    /\ \A m \in back \cup gone \cup again : box[m] \in {"waiting", "read"}
    /\ \A m, n \in back : box[m] = "read" /\ box[n] = "read" => m = n
    /\ (\E m \in gone : box[m] = "read") => Discards(back)
    /\ box' = [m \in Messages |-> IF m \in again THEN "repeated"
                                  ELSE IF m \in gone THEN "astray"
                                  ELSE IF m \in back THEN "back" ELSE box[m]]

Next ==
    \/ \E m \in Messages : Accept(m) \/ Read(m)
    \/ \E back, gone, again \in SUBSET Messages : Drop(back, gone, again)

Spec == Init /\ [][Next]_box
=============================================================================
