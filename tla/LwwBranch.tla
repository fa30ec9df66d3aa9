------------------------------ MODULE LwwBranch ------------------------------
(***************************************************************************)
(* What a branch of the knowledge base promises to its clients, said       *)
(* without objects, snapshots or a store.  DESIGN.md section 4.3 accepts   *)
(* last-writer-wins: two commands that overlap may lose one of their       *)
(* edits.  This module says what may NOT happen all the same: the content  *)
(* a command publishes is one edit away from a content the branch really   *)
(* held while that command ran, or, for a reset, a content some snapshot   *)
(* recorded.  Contents are never mixed, torn or made up.                   *)
(***************************************************************************)
CONSTANTS Clients, Branches, Paths, Values, Absent

Contents == [Paths -> Values \cup {Absent}]
Empty == [p \in Paths |-> Absent]

\* An open client has a mode, a branch and the contents that branch has held
\* since the client was invoked (its window).
Closed == [mode |-> "closed"]
Open   == [mode : {"edit", "restore"}, branch : Branches, window : SUBSET Contents]

VARIABLES content,   \* content[b]: what the branch b holds now
          recorded,  \* every content a snapshot has recorded so far
          client     \* client[c]: Closed, or the command c is running

vars == <<content, recorded, client>>

LwwTypeOK == /\ content \in [Branches -> Contents]
             /\ recorded \in SUBSET Contents
             /\ client \in [Clients -> Open \cup {Closed}]

Init == /\ content = [b \in Branches |-> Empty]
        /\ recorded = {}
        /\ client = [c \in Clients |-> Closed]

\* u is t with at most one path written or removed
OneEdit(t, u) == \E p \in Paths : \A q \in Paths \ {p} : u[q] = t[q]

Invoke(c, b, mode) ==
    /\ client[c] = Closed
    /\ client' = [client EXCEPT ![c] = [mode |-> mode, branch |-> b, window |-> {content[b]}]]
    /\ UNCHANGED <<content, recorded>>

\* the command writes a snapshot of the content it is going to publish
Record(c, u) ==
    /\ client[c] # Closed
    /\ client[c].mode = "edit"
    /\ \E t \in client[c].window : OneEdit(t, u)
    /\ recorded' = recorded \cup {u}
    /\ UNCHANGED <<content, client>>

\* the command moves the branch and ends; everybody else on that branch sees it
Publish(c, u) ==
    /\ client[c] # Closed
    /\ u \in recorded
    /\ client[c].mode = "edit" => \E t \in client[c].window : OneEdit(t, u)
    /\ content' = [content EXCEPT ![client[c].branch] = u]
    /\ client' = [d \in Clients |->
                    IF d = c THEN Closed
                    ELSE IF client[d] # Closed /\ client[d].branch = client[c].branch
                         THEN [client[d] EXCEPT !.window = @ \cup {u}]
                         ELSE client[d]]
    /\ UNCHANGED recorded

\* the command is refused, fails or is killed
Abandon(c) ==
    /\ client[c] # Closed
    /\ client' = [client EXCEPT ![c] = Closed]
    /\ UNCHANGED <<content, recorded>>

Next == \E c \in Clients :
          \/ \E b \in Branches, mode \in {"edit", "restore"} : Invoke(c, b, mode)
          \/ \E u \in Contents : Record(c, u) \/ Publish(c, u)
          \/ Abandon(c)

Spec == Init /\ [][Next]_vars
=============================================================================
