------------------------------ MODULE MCReviews ------------------------------
(***************************************************************************)
(* An instance of Reviews for TLC.  Votes, the supplier's handlers and the *)
(* requests meet only in the reviews, so a behaviour shows one of them.    *)
(***************************************************************************)
EXTENDS Reviews

Writing == {"create", "verify", "moderate"}
One == CHOOSE r \in Rows : TRUE

Scene(roles, rows, overlap, page) ==
  [roles |-> roles, rows |-> rows, overlap |-> overlap, page |-> page]

MCScenes ==
  {Scene(Writing \cup {"delete", "external"}, Rows, 1, TRUE),
   Scene(Writing, {One}, 1, FALSE),
   Scene(Writing \cup {"delete"}, {One}, 2, TRUE),
   Scene(Writing \cup {"vote"}, {One}, 1, TRUE),
   Scene({"create", "answer"}, {One}, 1, TRUE),
   Scene(Writing \cup {"dispute"}, {One}, 1, TRUE),
   Scene({"create", "cron"}, {One}, 1, TRUE)}
=============================================================================
