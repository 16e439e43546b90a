--------------------------- MODULE FilterRegister ---------------------------
(***************************************************************************)
(* What a layer's filters.xml promises the services that read it while one *)
(* configuration page at a time saves it: a register with one writer that  *)
(* is safe to read once (a request answers from one of the contents the    *)
(* file had while the request ran), whose writer leaves it unreadable      *)
(* until it ends and may leave it so, and nothing else.                    *)
(***************************************************************************)
EXTENDS Naturals

CONSTANTS
  Requests,         \* clients that read
  Configurations,   \* contents that parse
  Unreadable,       \* the content that does not
  Pages, NoPage,    \* what a save may be given, and that no save is given any
  Stored(_),        \* the content that a page is saved as
  Questions,        \* what a request may ask
  Answers,          \* what it may be told
  NoAnswer, Failed, \* no answer yet, and the answer of a request that died
  View(_, _)        \* the answer to a question, from a content

VARIABLES
  content,   \* what the file holds
  write,     \* the save that runs, if any, and the page it saves
  requests,  \* each client's request: whether it runs, and its question
  offered,   \* contents the file had since the request began, kept while
             \* at most one write has overlapped it
  overlaps,  \* writes that overlapped the request, counted to two
  answers    \* each client's last answer

vars == <<content, write, requests, offered, overlaps, answers>>

Contents == Configurations \cup {Unreadable}
NoWrite == [open |-> FALSE, page |-> NoPage]

Init ==
  /\ content \in Contents
  /\ write = NoWrite
  /\ \A r \in Requests : ~requests[r].busy
  /\ offered = [r \in Requests |-> {}]
  /\ overlaps = [r \in Requests |-> 0]
  /\ answers = [r \in Requests |-> NoAnswer]

(* The content changes to one that the requests running may come upon.     *)
Becomes(new) ==
  /\ content' = new
  /\ offered' = [r \in Requests |->
                   IF ~requests[r].busy THEN offered[r]
                   ELSE IF overlaps'[r] > 1 THEN {}
                   ELSE offered[r] \cup {new}]

BeginWrite ==
  /\ ~write.open
  /\ write' \in [open: {TRUE}, page: Pages]
  /\ overlaps' = [r \in Requests |->
                    IF requests[r].busy /\ overlaps[r] < 2
                    THEN overlaps[r] + 1 ELSE overlaps[r]]
  /\ Becomes(Unreadable)
  /\ UNCHANGED <<requests, answers>>

(* The save ends well, or in the middle.                                   *)
EndWrite ==
  /\ write.open
  /\ write' = NoWrite
  /\ UNCHANGED <<requests, overlaps, answers>>
  /\ \/ Stored(write.page) \in Configurations /\ Becomes(Stored(write.page))
     \/ Becomes(Unreadable)

Start(r) ==
  /\ ~requests[r].busy
  /\ \E q \in Questions :
       requests' = [requests EXCEPT ![r] = [busy |-> TRUE, question |-> q]]
  /\ offered' = [offered EXCEPT ![r] = {content}]
  /\ overlaps' = [overlaps EXCEPT ![r] = IF write.open THEN 1 ELSE 0]
  /\ answers' = [answers EXCEPT ![r] = NoAnswer]
  /\ UNCHANGED <<content, write>>

(* At most one write overlapped the request: it answers from one content.  *)
(* Two writes in a row may be read as one content that never was.          *)
Return(r) ==
  /\ requests[r].busy
  /\ \/ \E seen \in offered[r] :
          answers'[r] = View(requests[r].question, seen)
     \/ overlaps[r] > 1 /\ answers'[r] \in Answers
  /\ ~requests'[r].busy
  /\ \A s \in Requests \ {r} :
       answers'[s] = answers[s] /\ requests'[s] = requests[s]
  /\ offered' = [offered EXCEPT ![r] = {}]
  /\ overlaps' = [overlaps EXCEPT ![r] = 0]
  /\ UNCHANGED <<content, write>>

(* The server dies: what the save has written so far stays.                *)
Crash ==
  /\ write' = NoWrite
  /\ \A r \in Requests : ~requests'[r].busy
  /\ answers' = [r \in Requests |->
                   IF requests[r].busy THEN Failed ELSE answers[r]]
  /\ offered' = [r \in Requests |-> {}]
  /\ overlaps' = [r \in Requests |-> 0]
  /\ UNCHANGED content

Next ==
  \/ BeginWrite
  \/ EndWrite
  \/ \E r \in Requests : Start(r) \/ Return(r)
  \/ Crash

Spec == Init /\ [][Next]_vars

=============================================================================
