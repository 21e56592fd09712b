-------------------------- MODULE CommunityContent --------------------------
(***************************************************************************)
(* One post of a community with its replies, its likes and its moderation. *)
(*                                                                         *)
(* A request looks a row up outside any transaction and writes it later by *)
(* its id, whatever it has become; only a like asks again inside its       *)
(* transaction, without a lock.  A transaction writes rows that it holds   *)
(* until it commits, so its writes are one action.  Whether the user may   *)
(* act is asked once, in the look-up, of a membership that changes at any  *)
(* time: the check passes or the request does not begin.                   *)
(***************************************************************************)
EXTENDS Integers, FiniteSets

CONSTANTS Members,     \* users who are or were members
          Posting,     \* requests that may run at the same time
          MaxReplies   \* bound: replies ever made

ASSUME MembersAssumption == IsFiniteSet(Members)
ASSUME RepliesAssumption == MaxReplies \in Nat

VARIABLES item,        \* community_posts (0) and community_post_replies (1, 2, ...)
          likes,       \* community_post_likes and community_reply_likes: who likes an item
          replyCount, pinned,   \* of the post
          posting      \* what each request has read

contentVars == <<item, likes, replyCount, pinned, posting>>

Replies == 1..MaxReplies
Items == {0} \cup Replies
NoItem == [status |-> "none", deleted |-> FALSE, likeCount |-> 0, parent |-> 0]
NoRequest == [pc |-> "idle", item |-> 0, who |-> {}]

ContentInit ==
  /\ item = [i \in Items |-> NoItem]
  /\ likes = [i \in Items |-> {}]
  /\ replyCount = 0 /\ pinned = FALSE
  /\ posting = [c \in Posting |-> NoRequest]

\* The look-ups of the write paths: by id, and deletedAt is null.
Undeleted(i) == item[i].status # "none" /\ ~item[i].deleted

Remembers(c, pc, i, users) == posting' = [posting EXCEPT ![c] = [pc |-> pc, item |-> i, who |-> users]]
Ends(c) == posting' = [posting EXCEPT ![c] = NoRequest]
Does(c, pc) == posting[c].pc = pc

-----------------------------------------------------------------------------
(* What is shown *)

\* findAll of the posts: the feed leaves out what is hidden.  findOne shows a
\* post as long as it is not deleted.
InFeed(i) == Undeleted(i) /\ item[i].status = "PUBLISHED"

\* Mutant of InThread: asks for the status only.
InThreadByStatus(i) == Undeleted(0) /\ item[i].status = "PUBLISHED"

InThread(i) == Undeleted(0) /\ InFeed(i)

\* Mutant of Roots: the replies to the post itself.
RootsByParent == {i \in Replies : InThread(i) /\ item[i].parent = 0}

\* A reply whose parent is not in the thread becomes a root.
Roots == {i \in Replies : InThread(i) /\ (item[i].parent = 0 \/ ~InThread(item[i].parent))}

\* The replies of the tree down to a depth.
Tree[depth \in Nat] ==
  IF depth = 0 THEN Roots
  ELSE Tree[depth - 1] \cup {i \in Replies : InThread(i) /\ item[i].parent \in Tree[depth - 1]}

\* What findOne and the tree show.
Shown == {i \in {0} : Undeleted(i)} \cup Tree[MaxReplies]

-----------------------------------------------------------------------------
(* Posts *)

CreatePost ==
  /\ item[0].status = "none"
  /\ item' = [item EXCEPT ![0].status = "PUBLISHED"]
  /\ UNCHANGED <<likes, replyCount, pinned, posting>>

\* delete, pin and unpin: the look-up.
ReadItem(c, i, goal) ==
  /\ Does(c, "idle") /\ Undeleted(i)
  /\ Remembers(c, goal, i, {})
  /\ UNCHANGED <<item, likes, replyCount, pinned>>

MarkDeleted(i) == item' = [item EXCEPT ![i].deleted = TRUE, ![i].status = "DELETED"]

DeletePost(c) ==
  /\ Does(c, "delete") /\ posting[c].item = 0
  /\ MarkDeleted(0)
  /\ Ends(c)
  /\ UNCHANGED <<likes, replyCount, pinned>>

Pin(c) ==
  /\ Does(c, "pin")
  /\ pinned' = TRUE
  /\ Ends(c)
  /\ UNCHANGED <<item, likes, replyCount>>

Unpin(c) ==
  /\ Does(c, "unpin")
  /\ pinned' = FALSE
  /\ Ends(c)
  /\ UNCHANGED <<item, likes, replyCount>>

-----------------------------------------------------------------------------
(* Replies *)

\* The parent may be hidden, but not deleted.
ReadForReply(c, parent) ==
  /\ Does(c, "idle") /\ InFeed(0)
  /\ Undeleted(parent)
  /\ Remembers(c, "reply", parent, {})
  /\ UNCHANGED <<item, likes, replyCount, pinned>>

NewReply(parent) == [status |-> "PUBLISHED", deleted |-> FALSE, likeCount |-> 0, parent |-> parent]

CreateReply(c) ==
  /\ Does(c, "reply")
  /\ \E i \in Replies :
       /\ item[i].status = "none" /\ \A j \in 1..(i - 1) : item[j].status # "none"
       /\ item' = [item EXCEPT ![i] = NewReply(posting[c].item)]
  /\ replyCount' = replyCount + 1
  /\ Ends(c)
  /\ UNCHANGED <<likes, pinned>>

\* Mutant of DeleteReply: a reply that is hidden does not count.
DeleteReplyUnlessHidden(c) ==
  /\ Does(c, "delete") /\ posting[c].item # 0
  /\ MarkDeleted(posting[c].item)
  /\ replyCount' = IF item[posting[c].item].status = "HIDDEN" THEN replyCount ELSE replyCount - 1
  /\ Ends(c)
  /\ UNCHANGED <<likes, pinned>>

\* Two deletes that read the same reply both lower the count.
DeleteReply(c) ==
  /\ Does(c, "delete") /\ posting[c].item # 0
  /\ MarkDeleted(posting[c].item)
  /\ replyCount' = replyCount - 1
  /\ Ends(c)
  /\ UNCHANGED <<likes, pinned>>

-----------------------------------------------------------------------------
(* Likes *)

ReadForLike(c, i, u) ==
  /\ Does(c, "idle") /\ Undeleted(i)
  /\ Remembers(c, "toggle", i, {u})
  /\ UNCHANGED <<item, likes, replyCount, pinned>>

\* findUnique in the transaction: other toggles may still commit first.
FindLike(c) ==
  LET q == posting[c] IN
  /\ Does(c, "toggle")
  /\ Remembers(c, IF q.who \subseteq likes[q.item] THEN "unlike" ELSE "like", q.item, q.who)
  /\ UNCHANGED <<item, likes, replyCount, pinned>>

\* The pair is unique: the second of two likes fails, and only gives up.
Like(c) ==
  LET q == posting[c] IN
  /\ Does(c, "like") /\ ~(q.who \subseteq likes[q.item])
  /\ likes' = [likes EXCEPT ![q.item] = @ \cup q.who]
  /\ item' = [item EXCEPT ![q.item].likeCount = @ + 1]
  /\ Ends(c)
  /\ UNCHANGED <<replyCount, pinned>>

\* Mutant of Unlike: deleteMany, which does not fail when no row is left.
UnlikeAlwaysCounts(c) ==
  LET q == posting[c] IN
  /\ Does(c, "unlike")
  /\ likes' = [likes EXCEPT ![q.item] = @ \ q.who]
  /\ item' = [item EXCEPT ![q.item].likeCount = @ - 1]
  /\ Ends(c)
  /\ UNCHANGED <<replyCount, pinned>>

\* The row goes by its id: other requests that found the same row will not
\* find it again, even if the user has liked the item anew.
Unlike(c) ==
  LET q == posting[c] IN
  /\ Does(c, "unlike")
  /\ likes' = [likes EXCEPT ![q.item] = @ \ q.who]
  /\ item' = [item EXCEPT ![q.item].likeCount = @ - 1]
  /\ posting' = [d \in Posting |-> IF d = c THEN NoRequest
                   ELSE IF posting[d] = q THEN [posting[d] EXCEPT !.pc = "gone"] ELSE posting[d]]
  /\ UNCHANGED <<replyCount, pinned>>

-----------------------------------------------------------------------------
\* POST /admin/moderation on a post or a reply: RESTORE publishes, any other
\* action hides; deletedAt is neither read nor written.
Moderate(i, status) ==
  /\ item[i].status # "none"
  /\ item' = [item EXCEPT ![i].status = status]
  /\ UNCHANGED <<likes, replyCount, pinned, posting>>

\* A statement fails, or the process is lost: the transaction rolls back.
Abandon(c) ==
  /\ ~Does(c, "idle")
  /\ Ends(c)
  /\ UNCHANGED <<item, likes, replyCount, pinned>>

ContentNext ==
  \/ CreatePost
  \/ \E i \in Items, status \in {"PUBLISHED", "HIDDEN"} : Moderate(i, status)
  \/ \E c \in Posting :
       \/ ReadItem(c, 0, "pin") \/ ReadItem(c, 0, "unpin") \/ Pin(c) \/ Unpin(c)
       \/ \E i \in Items : \/ ReadItem(c, i, "delete") \/ ReadForReply(c, i)
                           \/ \E u \in Members : ReadForLike(c, i, u)
       \/ DeletePost(c) \/ DeleteReply(c) \/ CreateReply(c)
       \/ FindLike(c) \/ Like(c) \/ Unlike(c) \/ Abandon(c)

ContentSpec == ContentInit /\ [][ContentNext]_contentVars

-----------------------------------------------------------------------------
(* Properties *)

\* Type invariant.
ContentTypeOK ==
  /\ item \in [Items -> [status : {"none", "PUBLISHED", "HIDDEN", "DELETED"}, deleted : BOOLEAN,
                         likeCount : Int, parent : Items]]
  /\ likes \in [Items -> SUBSET Members]
  /\ replyCount \in Int /\ pinned \in BOOLEAN
  /\ posting \in [Posting ->
       [pc : {"idle", "delete", "pin", "unpin", "reply", "toggle", "like", "unlike", "gone"},
        item : Items, who : {{}} \cup {{u} : u \in Members}]]

\* likeCount is the number of likes of every post and reply, however the
\* toggles of one user or of several interleave: the toggle that comes second
\* fails on the row, and takes its count back with it.
LikesExact == \A i \in Items : item[i].likeCount = Cardinality(likes[i])

\* replyCount never promises more replies than are left, whatever deletes and
\* moderation do.  It may promise fewer: two deletes may count one reply.
RepliesNotOvercounted == replyCount <= Cardinality({i \in Replies : Undeleted(i)})

\* What is deleted is never shown again: not by a restore that publishes it,
\* and not by a request that had read it before.
NeverResurfaces == [][\A i \in Items : item[i].deleted => i \notin Shown']_contentVars

\* The tree loses no reply: one whose parent is deleted or hidden is still shown.
ThreadShowsAll == {i \in Replies : InThread(i)} \subseteq Shown
=============================================================================
