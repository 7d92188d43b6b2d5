------------------------------- MODULE Delivery -------------------------------
(***************************************************************************)
(* What the message path of the server promises to its connections: one    *)
(* bounded queue of posted messages, of which only the first is delivered, *)
(* copy by copy, to whoever is there, is addressed and may see it.  A copy *)
(* may be missing; none is invented, repeated, out of order or sent to a   *)
(* connection that was closed.  Router implements it (see the refinement   *)
(* mapping there).                                                         *)
(***************************************************************************)
EXTENDS Naturals, Sequences

CONSTANTS Conns, Nobody,         \* connections; a message may come from none
          Uids, Callsigns, Callsign,
          All,                   \* the target that is everybody
          Dests,                 \* sequences of targets
          Scopes, Local,         \* Local is seen by everybody
          Home, Visible,         \* the scope of a connection, those it can see
          Room                   \* how many messages can wait

VARIABLES waiting,     \* posted, not yet delivered, in order
          members,     \* the connections that are open
          contacts,    \* the contacts behind each connection
          got,         \* the copies each connection was sent
          clock        \* messages posted so far, the refused ones included

dvars == <<waiting, members, contacts, got, clock>>

Init == /\ waiting = <<>> /\ members = {} /\ contacts = [c \in Conns |-> {}]
        /\ got = [c \in Conns |-> <<>>] /\ clock = 0

Join(c) == c \notin members /\ members' = members \cup {c} /\ UNCHANGED <<waiting, contacts, got, clock>>

Close(c) == c \in members /\ members' = members \ {c} /\ UNCHANGED <<waiting, contacts, got, clock>>

\* A message of a connection is in its scope, whatever else it says; others
\* are not bound to one.  Messages are stamped in the order they are posted.
ScopesOf(c) == IF c = Nobody THEN Scopes \cup {Local} ELSE {Home[c]}

Stamp(c, s, d, us) == [id |-> clock, from |-> c, scope |-> s, dest |-> d, offline |-> us]

\* A connection may enter or strike a contact of its own as it posts.
Enters(c) == \/ UNCHANGED contacts
             \/ \E u \in Uids : \/ contacts' = [contacts EXCEPT ![c] = @ \cup {u}]
                                \/ contacts' = [contacts EXCEPT ![c] = @ \ {u}]

\* One message is in hand and Room wait.
Post(c) ==
  /\ Len(waiting) <= Room
  /\ \E s \in ScopesOf(c), d \in Dests, us \in SUBSET Uids : waiting' = Append(waiting, Stamp(c, s, d, us))

\* A message is refused only when Room are waiting.
Refuse == Len(waiting) >= Room /\ UNCHANGED waiting

Posting(c) == /\ clock' = clock + 1
              /\ Post(c) \/ Refuse
              /\ IF c = Nobody THEN UNCHANGED contacts ELSE Enters(c)
              /\ UNCHANGED <<members, got>>

\* Everybody but the sender, the connections of a contact or of a callsign.
Meant(c, m, t) ==
  CASE t = All        -> c /= m.from
    [] t[1] = "uid"   -> t[2] \in contacts[c]
    [] OTHER          -> \E u \in contacts[c] : Callsign[u] = t[2]

MaySee(c, m) == m.scope = Local \/ m.scope \in Visible[c]

\* Copies come in the order of the messages, and of the targets of each.
Before(p, q) == \/ p.message.id < q.message.id
                \/ p.message.id = q.message.id /\ p.walk > q.walk

\* The copy made when k targets are left is for the first of them.
Deliver(c, k) ==
  /\ waiting /= <<>> /\ c \in members
  /\ LET m == Head(waiting)
         p == [message |-> m, walk |-> k]
     IN /\ k \in 1 .. Len(m.dest)
        /\ Meant(c, m, m.dest[Len(m.dest) - k + 1]) /\ MaySee(c, m)
        /\ \A i \in 1 .. Len(got[c]) : Before(got[c][i], p)
        /\ got' = [got EXCEPT ![c] = Append(@, p)]
  /\ UNCHANGED <<waiting, members, contacts, clock>>

\* What is over is delivered to nobody any more.
Retire == /\ waiting /= <<>> /\ waiting' = Tail(waiting)
          /\ UNCHANGED <<members, contacts, got, clock>>

Turns == IF waiting = <<>> THEN {} ELSE 1 .. Len(Head(waiting).dest)

Next == \/ \E c \in Conns : Join(c) \/ Close(c) \/ \E k \in Turns : Deliver(c, k)
        \/ \E c \in Conns \cup {Nobody} : Posting(c)
        \/ Retire

Spec == Init /\ [][Next]_dvars
=============================================================================
