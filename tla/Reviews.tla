---- MODULE Reviews ----
(***************************************************************************)
(* agentic/reviews: a row of human_reviews, updated by requests that check *)
(* nothing of what it holds.  assigned_to and resolved_by are NULL at first*)
(* and are scanned into strings, which an unset column fails.              *)
(***************************************************************************)
CONSTANTS
  ReviewIds,
  Reviewers

Null == "null"

VARIABLES
  reviews      \* ReviewIds -> [status, assigned_to, resolved_by, settled],
               \* where settled is whether resolved_at is set

ReviewStatuses == {"none", "pending", "assigned", "resolved", "dismissed"}

ReviewsTypeOK ==
  reviews \in [ReviewIds -> [status : ReviewStatuses, assigned_to : Reviewers \union {Null},
                             resolved_by : Reviewers \union {Null}, settled : BOOLEAN]]

NoReview == [status |-> "none", assigned_to |-> Null, resolved_by |-> Null, settled |-> FALSE]

ReviewsInit == reviews = [r \in ReviewIds |-> NoReview]

Update(r, row) == reviews' = [reviews EXCEPT ![r] = row]

CreateReviewBlank(r) == reviews[r] = NoReview /\ Update(r, [NoReview EXCEPT !.status = ""])
CreateReview(r) == reviews[r] = NoReview /\ Update(r, [NoReview EXCEPT !.status = "pending"])

Stored(r) == reviews[r] # NoReview

Assign(r, who) ==
  Stored(r) /\ Update(r, [reviews[r] EXCEPT !.status = "assigned", !.assigned_to = who])

Resolve(r, who) ==
  Stored(r) /\ Update(r, [reviews[r] EXCEPT !.status = "resolved", !.resolved_by = who, !.settled = TRUE])

Dismiss(r) ==
  Stored(r) /\ Update(r, [reviews[r] EXCEPT !.status = "dismissed", !.settled = TRUE])

\* Get and List: a row with a NULL in either column cannot be scanned, which is
\* an error of Get and makes List pass over it.
Readable(r) == Stored(r) /\ reviews[r].assigned_to # Null /\ reviews[r].resolved_by # Null

List(statuses) == {r \in ReviewIds : reviews[r].status \in statuses /\ Readable(r)}

ReviewsNext ==
  \E r \in ReviewIds :
    \/ CreateReview(r) \/ Dismiss(r)
    \/ \E who \in Reviewers : Assign(r, who) \/ Resolve(r, who)

ReviewsSpec == ReviewsInit /\ [][ReviewsNext]_reviews

----
\* List takes a status to filter by (review.go:115-118), and `reviews` are the
\* "human-review gate" (docs/architecture.md:44): a review that waits for a human
\* is listed among those that are pending.
PendingIsListed ==
  \A r \in ReviewIds : reviews[r].status = "pending" => r \in List({"pending"})
====
