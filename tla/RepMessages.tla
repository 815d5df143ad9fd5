----------------------------- MODULE RepMessages -----------------------------
(***************************************************************************)
(* Messages to a supplier's representative (handlers/orders.py, "ask",     *)
(* "message", "message/send", "message/discard", "contacts/remove"): a     *)
(* draft goes out when the owner presses Send, and an order message then   *)
(* enters the books.  Each statement commits by itself, and between        *)
(* get_message, the provider's answer, mark_message_sent and create_order  *)
(* anything else may happen or the request may die.                        *)
(***************************************************************************)
EXTENDS Naturals, FiniteSets

CONSTANTS Messages,  \* supplier_message rows, all to one contact
          Senders,   \* concurrent requests to send
          MaxSends,  \* bound on messages that reach the provider
          MaxCutOff, \* bound on requests that die
          MaxErrors  \* bound on errors the provider answers

ASSUME RepAssumptions ==
    /\ Messages # {} /\ IsFiniteSet(Senders) /\ Senders # {}
    /\ MaxSends \in Nat /\ MaxCutOff \in Nat /\ MaxErrors \in Nat

VARIABLES contact, \* is the contact on file?
          message, \* [Messages -> status and kind]
          out,     \* [Messages -> times the provider took it]
          books,   \* [Messages -> supply_order rows written for it]
          sender,  \* [Senders -> program counter and message]
          cutOff, errors

repVars == <<contact, message, out, books, sender, cutOff, errors>>

NotSending == [pc |-> "idle", msg |-> CHOOSE m \in Messages : TRUE]

RepInit ==
    /\ contact = TRUE
    /\ message = [m \in Messages |-> [status |-> "absent", kind |-> "note"]]
    /\ out = [m \in Messages |-> 0] /\ books = [m \in Messages |-> 0]
    /\ sender = [r \in Senders |-> NotSending]
    /\ cutOff = 0 /\ errors = 0

\* create_message, for a note or for an order priced from the catalogue.
Compose(m, kind) ==
    /\ contact /\ message[m].status = "absent"
    /\ message' = [message EXCEPT ![m] = [status |-> "draft", kind |-> kind]]
    /\ UNCHANGED <<contact, out, books, sender, cutOff, errors>>

\* discard_message: WHERE status = 'draft'.
Discard(m) ==
    /\ message[m].status = "draft"
    /\ message' = [message EXCEPT ![m].status = "discarded"]
    /\ UNCHANGED <<contact, out, books, sender, cutOff, errors>>

\* remove_contact; its messages go with it (ON DELETE CASCADE).
RemoveContact ==
    /\ contact
    /\ contact' = FALSE
    /\ message' = [m \in Messages |-> [message[m] EXCEPT !.status =
                      IF @ = "absent" THEN @ ELSE "deleted"]]
    /\ UNCHANGED <<out, books, sender, cutOff, errors>>

-----------------------------------------------------------------------------
\* message/send.

\* A plausible bug: whatever has not been discarded is sent again.
ReadMessageAgain(r, m) ==
    /\ sender[r].pc = "idle" /\ contact /\ message[m].status \in {"draft", "sent"}
    /\ sender' = [sender EXCEPT ![r] = [pc |-> "send", msg |-> m]]
    /\ UNCHANGED <<contact, message, out, books, cutOff, errors>>

\* get_message and list_contacts; 404 or 409 when there is nothing to send.
ReadMessage(r, m) ==
    /\ sender[r].pc = "idle" /\ contact /\ message[m].status = "draft"
    /\ sender' = [sender EXCEPT ![r] = [pc |-> "send", msg |-> m]]
    /\ UNCHANGED <<contact, message, out, books, cutOff, errors>>

\* email_sender or whatsapp_sender.
Send(r) ==
    LET m == sender[r].msg IN
    /\ sender[r].pc = "send" /\ out[m] < MaxSends
    /\ out' = [out EXCEPT ![m] = @ + 1]
    /\ sender' = [sender EXCEPT ![r].pc = "mark"]
    /\ UNCHANGED <<contact, message, books, cutOff, errors>>

\* A plausible bug: an error of the provider is taken for its acknowledgement.
SendFailsUnnoticed(r) ==
    /\ sender[r].pc = "send" /\ errors < MaxErrors
    /\ errors' = errors + 1
    /\ out' = out
    /\ sender' = [sender EXCEPT ![r].pc = "mark"]
    /\ UNCHANGED <<contact, message, books, cutOff>>

\* The provider answers an error, or nothing in time, and may have taken it: 502.
SendFails(r) ==
    LET m == sender[r].msg IN
    /\ sender[r].pc = "send" /\ errors < MaxErrors
    /\ errors' = errors + 1
    /\ \/ UNCHANGED out
       \/ out[m] < MaxSends /\ out' = [out EXCEPT ![m] = @ + 1]
    /\ sender' = [sender EXCEPT ![r] = NotSending]
    /\ UNCHANGED <<contact, message, books, cutOff>>

\* mark_message_sent: WHERE status = 'draft'.  Nobody looks at what it returns.
Mark(r) ==
    LET m == sender[r].msg IN
    /\ sender[r].pc = "mark"
    /\ message' = [message EXCEPT ![m].status = IF @ = "draft" THEN "sent" ELSE @]
    /\ sender' = [sender EXCEPT ![r] = IF message[m].kind = "order"
                                         THEN [@ EXCEPT !.pc = "book"] ELSE NotSending]
    /\ UNCHANGED <<contact, out, books, cutOff, errors>>

\* create_order, with the message as it was read.
Book(r) ==
    /\ sender[r].pc = "book"
    /\ books' = [books EXCEPT ![sender[r].msg] = @ + 1]
    /\ sender' = [sender EXCEPT ![r] = NotSending]
    /\ UNCHANGED <<contact, message, out, cutOff, errors>>

SenderDies(r) ==
    /\ sender[r].pc # "idle" /\ cutOff < MaxCutOff
    /\ cutOff' = cutOff + 1
    /\ sender' = [sender EXCEPT ![r] = NotSending]
    /\ UNCHANGED <<contact, message, out, books, errors>>

RepNext ==
    \/ RemoveContact
    \/ \E m \in Messages : \/ \E k \in {"note", "order"} : Compose(m, k)
                           \/ Discard(m)
                           \/ \E r \in Senders : ReadMessage(r, m)
    \/ \E r \in Senders : Send(r) \/ SendFails(r) \/ Mark(r) \/ Book(r) \/ SenderDies(r)

RepSpec == RepInit /\ [][RepNext]_repVars

-----------------------------------------------------------------------------
\* Properties.

RepTypeOK ==
    /\ contact \in BOOLEAN
    /\ message \in [Messages -> [status : {"absent", "draft", "sent", "discarded",
                                           "deleted"}, kind : {"note", "order"}]]
    /\ out \in [Messages -> 0..MaxSends] /\ books \in [Messages -> Nat]
    /\ sender \in [Senders -> [pc : {"idle", "send", "mark", "book"}, msg : Messages]]
    /\ cutOff \in 0..MaxCutOff /\ errors \in 0..MaxErrors

Past(m, pcs) == {r \in Senders : sender[r].pc \in pcs /\ sender[r].msg = m}

\* The books never hold more orders to a rep than the rep was sent, whoever dies
\* where: what is on its way into the books went out too, one for one.
BooksFollowMail ==
    \A m \in Messages : books[m] + Cardinality(Past(m, {"mark", "book"})) <= out[m]

\* A message shown as sent went out, and one shown as discarded stays out of every
\* later request: neither status is ever taken back.
StatusIsFinal ==
    [][\A m \in Messages :
          /\ message[m].status \in {"sent", "discarded"} =>
                message'[m].status \in {message[m].status, "deleted"}
          /\ message'[m].status = "sent" => out[m] > 0]_repVars

\* How often a rep can get one message: once for each request at the same time,
\* and once more for each one that died or was answered an error before the
\* message was marked.
RepeatsBounded ==
    \A m \in Messages :
        out[m] + Cardinality(Past(m, {"send"})) <= Cardinality(Senders) + cutOff + errors

\* orders_store.py on mark_message_sent: "a concurrent or repeated send matches
\* zero rows instead of emailing the rep twice."
SentOnce == \A m \in Messages : out[m] <= 1
=============================================================================
