------------------------------ MODULE BlobStore ------------------------------
(***************************************************************************)
(* What internal/asset promises its callers, whatever it keeps in which    *)
(* place: a store of contents, named by their hash, in which a content is  *)
(* there or not.  Storing one content takes no other away, an answer       *)
(* "stored" or "removed" is true when it is given, and a request that      *)
(* fails, or a crash, stores nothing.                                      *)
(***************************************************************************)
CONSTANTS Hashes,  \* contents
          Clients  \* goroutines that use the store

VARIABLES avail,   \* the contents that can be read
          request, \* what each client has asked for and not been answered
          answer   \* the last answer of each client

bvars == <<avail, request, answer>>

NoRequest == <<"none">>
StoreOf(x) == <<"store", x>>
RemoveOf(x) == <<"remove", x>>
Requests == {NoRequest} \cup {StoreOf(x) : x \in Hashes} \cup {RemoveOf(x) : x \in Hashes}
Answers == {"none", "stored", "removed", "failed"}

BlobInit == /\ avail = {}
            /\ request = [c \in Clients |-> NoRequest]
            /\ answer = [c \in Clients |-> "none"]

Answer(c, a) == /\ request' = [request EXCEPT ![c] = NoRequest]
                /\ answer' = [answer EXCEPT ![c] = a]

Ask(c, q) == /\ request[c] = NoRequest
             /\ request' = [request EXCEPT ![c] = q]
             /\ answer' = [answer EXCEPT ![c] = "none"]
             /\ UNCHANGED avail

Store(c, x) == /\ request[c] = StoreOf(x)
               /\ avail' = avail \cup {x}
               /\ Answer(c, "stored")

\* A content is gone before its removal is answered.
Drop(c, x) == /\ request[c] = RemoveOf(x)
              /\ avail' = avail \ {x}
              /\ UNCHANGED <<request, answer>>

Removed(c, x) == /\ request[c] = RemoveOf(x)
                 /\ x \notin avail
                 /\ Answer(c, "removed")
                 /\ UNCHANGED avail

Failed(c) == Answer(c, "failed") /\ UNCHANGED avail

BlobRestart == /\ request' = [c \in Clients |-> NoRequest]
               /\ answer' = [c \in Clients |-> "none"]
               /\ UNCHANGED avail

BlobNext == \/ BlobRestart
            \/ \E c \in Clients :
                  \/ \E q \in Requests : Ask(c, q)
                  \/ \E x \in Hashes : Store(c, x) \/ Drop(c, x) \/ Removed(c, x)
                  \/ Failed(c)

BlobSpec == BlobInit /\ [][BlobNext]_bvars
=============================================================================
