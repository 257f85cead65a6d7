------------------------------ MODULE Listing -----------------------------
(* What QUERY_DIRECTORY promises a client that reads one open directory in  *)
(* portions.  The entries are numbered in the order of the directory; the   *)
(* client has still to hear of those in left.  Nothing is said of how the   *)
(* server buffers what it has read.                                         *)
EXTENDS Integers

CONSTANTS Entry,     \* the entries, a set of numbers
          Request    \* the requests: records with fields wild, restart, room and pat

VARIABLES left,      \* the entries that are still to come
          gone,      \* the entries whose file was removed
          req,       \* the request that is being answered, or was last
          told,      \* the entries of the last answer
          status     \* the status of the last answer

vars == <<left, gone, req, told, status>>

Init == left = Entry /\ gone = {} /\ req \in Request /\ told = {} /\ status = "none"

(* A request for the entries that match a pattern may take several steps:   *)
(* entries are passed over before the answer is found.  Only those that do  *)
(* not match, or whose file no longer exists, are.                          *)
Passes(r) == left' \subseteq left /\ (left \ left') \cap r.pat \subseteq gone

Pass(r) == Passes(r) /\ UNCHANGED <<told, status>>

(* The next entries that match: every file that still exists, up to some    *)
(* point that no entry still to come precedes.                              *)
Tell(r) ==
    /\ status' = "ok"
    /\ told' # {} /\ told' \subseteq left \cap r.pat
    /\ left' \subseteq left \ told'
    /\ ((left \ left') \cap r.pat) \ told' \subseteq gone
    /\ \A e \in told', f \in left' : e < f

(* The end is announced when no file that matches is left. *)
End(r) == status' = "end" /\ told' = {} /\ left' = {} /\ left \cap r.pat \subseteq gone

(* The next entry that matches does not fit; it stays. *)
TooSmall(r) == status' = "small" /\ told' = {} /\ Passes(r) /\ left' \cap r.pat # {}

(* A portion that cannot be read is lost, and the client is told. *)
Fail == status' = "error" /\ told' = {} /\ left' \subseteq left

Goes(r) == Pass(r) \/ Tell(r) \/ End(r) \/ TooSmall(r)

Scan(r) ==
    /\ r.wild /\ r.room > 0
    /\ IF r.restart THEN left' = Entry /\ UNCHANGED <<told, status>> ELSE Goes(r)

(* A question for one name, or one that leaves no room for an answer.  It   *)
(* does not move the enumeration, except that one which asks to restart     *)
(* loses what the server had read ahead.                                    *)
Ask(r) ==
    /\ ~r.wild \/ r.room = 0
    /\ left' \subseteq left
    /\ ~r.restart => left' = left
    /\ \/ status' = "ok" /\ told' = r.pat /\ r.pat \cap gone = {}
       \/ status' \in {"end", "small", "absent"} /\ told' = {}

(* A request that is refused moves nothing. *)
Refuse == status' = "error" /\ told' = {} /\ UNCHANGED <<left, req>>

(* A new request, or one more step of the last. *)
Answer ==
    \/ \E r \in Request : req' = r /\ (Scan(r) \/ Ask(r))
    \/ UNCHANGED req /\ req.wild /\ (Goes(req) \/ Fail)
    \/ Refuse

Remove(e) == gone' = gone \cup {e} /\ UNCHANGED <<left, req, told, status>>

Next == (Answer /\ UNCHANGED gone) \/ (\E e \in Entry : Remove(e))

Spec == Init /\ [][Next]_vars
============================================================================
