-------------------------- MODULE CommunitiesProofs --------------------------
(***************************************************************************)
(* What is proved of the five components of a community, for any number of *)
(* users, replies, messages, reports and of requests at the same time.     *)
(***************************************************************************)
EXTENDS MCCommunities, Sequences, FiniteSetTheorems, NaturalsInduction, WellFoundedInduction,
        TLAPS

\* A behaviour in which the five are side by side is one of each of them.
THEOREM CommunitiesAreComponents ==
  CommunitiesSpec => /\ Spec /\ ContentSpec /\ Membership!Spec
                     /\ Chat!ChatSpec /\ Reports!ReportSpec
<1>1. CommunitiesInit => /\ Init /\ ContentInit /\ Membership!Init
                         /\ Chat!ChatInit /\ Reports!ReportInit
  BY DEF CommunitiesInit
<1>2. [CommunitiesNext]_<<vars, contentVars, memberVars, chatVars, reportVars>> =>
        /\ [Next]_vars /\ [ContentNext]_contentVars /\ [Membership!Next]_(Membership!vars)
        /\ [Chat!ChatNext]_(Chat!chatVars) /\ [Reports!ReportNext]_(Reports!reportVars)
  BY DEF CommunitiesNext, memberVars, chatVars, reportVars, Membership!vars, Chat!chatVars,
         Reports!reportVars
<1> QED BY <1>1, <1>2, PTL DEF CommunitiesSpec, Spec, ContentSpec, Membership!Spec, Chat!ChatSpec,
            Reports!ReportSpec

-----------------------------------------------------------------------------
(* The meetup.  The holder of the row's lock keeps its checks true until   *)
(* it commits, since everything that changes the meetup waits for the row; *)
(* and a leave whose delete will succeed is a leave of a participant.      *)

\* The lock belongs to a join, and every join has it.
LockInv ==
  /\ locked # None => request[locked].kind = "join"
  /\ \A r \in Requests : request[r].kind = "join" => locked = r

\* What the holder of the lock checked is still so.
JoinInv ==
  \A r \in Requests : request[r].kind = "join" =>
    /\ request[r].user \in Users \ participants
    /\ status = "SCHEDULED" /\ ~Full

LeaveInv ==
  \A r \in Requests : request[r].kind = "leave" => request[r].user \in participants

MeetupInv == TypeOK /\ CountIsExact /\ LockInv /\ JoinInv /\ LeaveInv

-----------------------------------------------------------------------------
\* One participant more, or one less.
LEMMA CountChanges ==
  ASSUME NEW S \in SUBSET Users, NEW u
  PROVE  /\ Cardinality(S) \in Nat
         /\ u \notin S => Cardinality(S \cup {u}) = Cardinality(S) + 1
         /\ u \in S => Cardinality(S \ {u}) = Cardinality(S) - 1
<1>1. IsFiniteSet(S)
  BY LimitsAssumption, FS_Subset
<1> QED BY <1>1, FS_CardinalityType, FS_AddElement, FS_RemoveElement

\* The initial state satisfies the inductive invariant.
LEMMA MeetupInit == Init => MeetupInv
<1> SUFFICES ASSUME Init PROVE MeetupInv
  OBVIOUS
<1>1. CountIsExact
  BY FS_EmptySet DEF Init, CountIsExact
<1>2. TypeOK /\ LockInv /\ JoinInv /\ LeaveInv
  BY DEF Init, Idle, TypeOK, LockInv, JoinInv, LeaveInv
<1> QED BY <1>1, <1>2 DEF MeetupInv

LEMMA UpdateKeeps ==
  ASSUME MeetupInv, NEW l \in Limits \cup {None},
         NEW s \in {"SCHEDULED", "CANCELLED", "COMPLETED"}, Update(l, s)
  PROVE  MeetupInv'
<1>1. \A r \in Requests : request[r].kind # "join"
  BY RequestsAssumption DEF MeetupInv, LockInv, Update
<1> QED BY <1>1 DEF MeetupInv, Update, TypeOK, CountIsExact, LockInv, JoinInv, LeaveInv

LEMMA JoinLockKeeps ==
  ASSUME MeetupInv, NEW r \in Requests, NEW u \in Users, JoinLock(r, u)
  PROVE  MeetupInv'
<1>1. TypeOK' /\ CountIsExact'
  BY DEF MeetupInv, JoinLock, TypeOK, CountIsExact
<1>2. LockInv'
  BY RequestsAssumption DEF MeetupInv, JoinLock, TypeOK, LockInv
<1>3. JoinInv' /\ LeaveInv'
  BY DEF MeetupInv, JoinLock, TypeOK, LockInv, JoinInv, LeaveInv, Full
<1> QED BY <1>1, <1>2, <1>3 DEF MeetupInv

\* No other request is a join, and no leave is of a user who is not there.
LEMMA JoinCommitKeeps ==
  ASSUME MeetupInv, NEW r \in Requests, JoinCommit(r)
  PROVE  MeetupInv'
<1>1. request[r].user \in Users \ participants
  BY DEF MeetupInv, JoinInv, JoinCommit
<1>2. TypeOK'
  BY <1>1 DEF MeetupInv, JoinCommit, TypeOK, Idle
<1>3. CountIsExact'
  BY <1>1, CountChanges DEF MeetupInv, JoinCommit, TypeOK, CountIsExact
<1>4. \A q \in Requests : q # r => request'[q] = request[q] /\ request[q].kind # "join"
  BY DEF MeetupInv, JoinCommit, TypeOK, LockInv
<1>5. LockInv' /\ JoinInv' /\ LeaveInv'
  BY <1>4 DEF MeetupInv, JoinCommit, TypeOK, Idle, LockInv, JoinInv, LeaveInv
<1> QED BY <1>2, <1>3, <1>5 DEF MeetupInv

LEMMA LeaveReadKeeps ==
  ASSUME MeetupInv, NEW r \in Requests, NEW u \in Users, LeaveRead(r, u)
  PROVE  MeetupInv'
<1>1. TypeOK' /\ CountIsExact'
  BY DEF MeetupInv, LeaveRead, TypeOK, CountIsExact
<1>2. LockInv' /\ JoinInv' /\ LeaveInv'
  BY DEF MeetupInv, LeaveRead, TypeOK, Idle, LockInv, JoinInv, LeaveInv, Full
<1> QED BY <1>1, <1>2 DEF MeetupInv

\* The other leaves of the same row can no longer succeed.
LEMMA LeaveCommitKeeps ==
  ASSUME MeetupInv, NEW r \in Requests, LeaveCommit(r)
  PROVE  MeetupInv'
<1>1. request[r].user \in participants /\ locked = None
  BY DEF MeetupInv, LeaveInv, LeaveCommit
<1>2. \A q \in Requests :
        \/ request'[q] = Idle
        \/ request'[q] = [request[q] EXCEPT !.kind = "gone"]
        \/ request'[q] = request[q] /\ request[q] # request[r]
  BY DEF LeaveCommit
<1>3. TypeOK'
  BY <1>2 DEF MeetupInv, LeaveCommit, TypeOK, Idle
<1>4. CountIsExact'
  BY <1>1, CountChanges DEF MeetupInv, LeaveCommit, TypeOK, CountIsExact
<1>5. \A q \in Requests : request[q].kind # "join"
  BY <1>1, RequestsAssumption DEF MeetupInv, LockInv
<1>6. LockInv' /\ JoinInv'
  BY <1>1, <1>2, <1>5 DEF MeetupInv, LeaveCommit, TypeOK, Idle, LockInv, JoinInv
<1>7. LeaveInv'
  <2> SUFFICES ASSUME NEW q \in Requests, request'[q].kind = "leave"
               PROVE  request'[q].user \in participants'
    BY DEF LeaveInv
  <2>1. request'[q] = request[q] /\ request[q] # request[r]
    <3>1. Idle.kind # "leave" /\ [request[q] EXCEPT !.kind = "gone"].kind # "leave"
      BY DEF MeetupInv, TypeOK, Idle
    <3> QED BY <1>2, <3>1
  <2>2. request[q].user # request[r].user
    BY <2>1 DEF MeetupInv, TypeOK, LeaveCommit
  <2> QED BY <2>1, <2>2 DEF MeetupInv, LeaveInv, LeaveCommit
<1> QED BY <1>3, <1>4, <1>6, <1>7 DEF MeetupInv

LEMMA MeetupAbortKeeps ==
  ASSUME MeetupInv, NEW r \in Requests, Abort(r)
  PROVE  MeetupInv'
<1>1. TypeOK' /\ CountIsExact'
  BY DEF MeetupInv, Abort, TypeOK, Idle, CountIsExact
<1>2. LockInv' /\ JoinInv' /\ LeaveInv'
  BY RequestsAssumption DEF MeetupInv, Abort, TypeOK, Idle, LockInv, JoinInv, LeaveInv, Full
<1> QED BY <1>1, <1>2 DEF MeetupInv

LEMMA MeetupNextKeeps == MeetupInv /\ [Next]_vars => MeetupInv'
<1> SUFFICES ASSUME MeetupInv, [Next]_vars PROVE MeetupInv'
  OBVIOUS
<1>1. CASE UNCHANGED vars
  BY <1>1 DEF vars, MeetupInv, TypeOK, CountIsExact, LockInv, JoinInv, LeaveInv, Full
<1>2. CASE Next
  BY <1>2, UpdateKeeps, JoinLockKeeps, LeaveReadKeeps, JoinCommitKeeps, LeaveCommitKeeps,
     MeetupAbortKeeps DEF Next
<1> QED BY <1>1, <1>2

LEMMA MeetupInvariance == Spec => []MeetupInv
  BY MeetupInit, MeetupNextKeeps, PTL DEF Spec

\* The count the capacity check trusts is the number of participants.
THEOREM CountExact == Spec => []CountIsExact
<1>1. MeetupInv => CountIsExact
  BY DEF MeetupInv
<1> QED BY <1>1, MeetupInvariance, PTL

\* A step that adds a participant is the commit of a join, whose checks hold.
LEMMA JoinStep ==
  ASSUME MeetupInv, [Next]_vars, participants' \ participants # {}
  PROVE  /\ status = "SCHEDULED"
         /\ limit # None => Cardinality(participants') + 1 <= limit
<1>1. PICK r \in Requests : JoinCommit(r)
  BY DEF Next, vars, Update, JoinLock, LeaveRead, LeaveCommit, Abort
<1>2. request[r].user \in Users \ participants /\ status = "SCHEDULED" /\ ~Full
  BY <1>1 DEF MeetupInv, JoinInv, JoinCommit
<1>3. Cardinality(participants') = participantCount
  BY <1>1, <1>2, CountChanges DEF MeetupInv, TypeOK, CountIsExact, JoinCommit
<1> QED BY <1>2, <1>3, LimitsAssumption DEF Full, MeetupInv, TypeOK

\* Joins respect the status and the limit of the moment they commit.
THEOREM JoinsRespectLimit == Spec => JoinsWithinLimit
  BY JoinStep, MeetupInvariance, PTL DEF Spec, JoinsWithinLimit

-----------------------------------------------------------------------------
(* The counters of the post.  A request about to remove a like has found   *)
(* the row, and the row is still there, for whoever removes it makes all   *)
(* that found it fail; and a reply that is made has no like and no         *)
(* deletion mark before.                                                   *)

PostingRequests == [pc : {"idle", "delete", "pin", "unpin", "reply", "toggle", "like", "unlike", "gone"},
                    item : Items, who : {{}} \cup {{u} : u \in Members}]

\* A request works on a row that was made; a toggle is somebody's, and one
\* that will remove a like removes one that is there.
Sound(q) ==
  /\ q.pc # "idle" => item[q.item].status # "none"
  /\ q.pc \in {"toggle", "like", "unlike", "gone"} => q.who # {}
  /\ q.pc = "unlike" => q.who \subseteq likes[q.item]

RequestsSound == \A c \in Posting : Sound(posting[c])

Unmade == \A i \in Items : item[i].status = "none" => item[i] = NoItem /\ likes[i] = {}

ContentInv ==
  ContentTypeOK /\ LikesExact /\ RepliesNotOvercounted /\ Unmade /\ RequestsSound

-----------------------------------------------------------------------------
\* One element more, or at most one less, of a finite set.
LEMMA OneMoreOrLess ==
  ASSUME NEW S, IsFiniteSet(S), NEW x
  PROVE  /\ Cardinality(S) \in Nat
         /\ x \notin S => Cardinality(S \cup {x}) = Cardinality(S) + 1
         /\ x \in S => Cardinality(S \ {x}) = Cardinality(S) - 1
         /\ Cardinality(S \ {x}) >= Cardinality(S) - 1
<1>1. CASE x \in S
  BY <1>1, FS_CardinalityType, FS_AddElement, FS_RemoveElement
<1>2. CASE x \notin S
  <2>1. S \ {x} = S
    BY <1>2
  <2>2. Cardinality(S) \in Nat
    BY FS_CardinalityType
  <2>3. Cardinality(S \cup {x}) = Cardinality(S) + 1
    BY <1>2, FS_AddElement
  <2>4. Cardinality(S \ {x}) >= Cardinality(S) - 1
    <3>1. Cardinality(S \ {x}) = Cardinality(S)
      BY <2>1
    <3> QED BY <2>2, <3>1
  <2> QED BY <1>2, <2>2, <2>3, <2>4
<1> QED BY <1>1, <1>2

Left == {i \in Replies : Undeleted(i)}

LEMMA LeftFinite == IsFiniteSet(Left)
<1>1. IsFiniteSet(Replies)
  BY RepliesAssumption, FS_Interval DEF Replies
<1> QED BY <1>1, FS_Subset DEF Left

LEMMA LikesFinite ==
  ASSUME ContentTypeOK, NEW i \in Items
  PROVE  IsFiniteSet(likes[i])
<1>1. likes[i] \in SUBSET Members
  BY DEF ContentTypeOK
<1> QED BY <1>1, MembersAssumption, FS_Subset

\* Nothing is made yet.
LEMMA InitContentInv == ContentInit => ContentInv
<1> SUFFICES ASSUME ContentInit PROVE ContentInv
  OBVIOUS
<1>1. ContentTypeOK
  <2>1. 0 \in Items
    BY DEF Items
  <2>2. NoItem \in [status : {"none", "PUBLISHED", "HIDDEN", "DELETED"}, deleted : BOOLEAN,
                   likeCount : Int, parent : Items]
    BY <2>1 DEF NoItem
  <2>3. NoRequest \in PostingRequests
    BY <2>1 DEF NoRequest, PostingRequests
  <2>4. item \in [Items -> [status : {"none", "PUBLISHED", "HIDDEN", "DELETED"}, deleted : BOOLEAN,
                            likeCount : Int, parent : Items]]
    BY <2>2 DEF ContentInit
  <2>5. posting \in [Posting -> PostingRequests]
    BY <2>3 DEF ContentInit
  <2>6. likes \in [Items -> SUBSET Members]
    BY DEF ContentInit
  <2>7. replyCount \in Int
    BY SMT DEF ContentInit
  <2>8. pinned \in BOOLEAN
    BY Zenon DEF ContentInit
  <2> QED BY <2>4, <2>5, <2>6, <2>7, <2>8 DEF ContentTypeOK, PostingRequests
<1>2. LikesExact
  BY FS_EmptySet DEF ContentInit, LikesExact, NoItem
<1>3. Left = {}
  BY DEF ContentInit, Left, Undeleted, NoItem, Replies, Items
<1>4. RepliesNotOvercounted
  BY <1>3, FS_EmptySet DEF ContentInit, RepliesNotOvercounted, Left
<1>5. Unmade /\ RequestsSound
  BY DEF ContentInit, Unmade, RequestsSound, Sound, NoItem, NoRequest
<1> QED BY <1>1, <1>2, <1>4, <1>5 DEF ContentInv

-----------------------------------------------------------------------------
\* A step that only changes what one request remembers.
LEMMA OnlyRemembers ==
  ASSUME ContentInv, NEW c \in Posting, NEW q \in PostingRequests, Sound(q),
         UNCHANGED <<item, likes, replyCount>>, pinned' \in BOOLEAN,
         posting' = [posting EXCEPT ![c] = q]
  PROVE  ContentInv'
<1>1. ContentTypeOK'
  BY DEF ContentInv, ContentTypeOK, PostingRequests
<1>2. LikesExact' /\ RepliesNotOvercounted' /\ Unmade'
  BY DEF ContentInv, LikesExact, RepliesNotOvercounted, Undeleted, Unmade
<1>3. RequestsSound'
  BY DEF ContentInv, ContentTypeOK, RequestsSound, Sound
<1> QED BY <1>1, <1>2, <1>3 DEF ContentInv

LEMMA NoRequestSound == NoRequest \in PostingRequests /\ Sound(NoRequest)
BY RepliesAssumption DEF NoRequest, PostingRequests, Sound, Items

\* The look-ups, and the writes of pinned alone.
LEMMA ReadsKeep ==
  ASSUME ContentInv, NEW c \in Posting,
         \/ ReadItem(c, 0, "pin") \/ ReadItem(c, 0, "unpin") \/ Pin(c) \/ Unpin(c)
         \/ \E i \in Items : \/ ReadItem(c, i, "delete") \/ ReadForReply(c, i)
                             \/ \E u \in Members : ReadForLike(c, i, u)
         \/ FindLike(c) \/ Abandon(c)
  PROVE  ContentInv'
<1>0. 0 \in Items /\ pinned \in BOOLEAN
  BY DEF ContentInv, ContentTypeOK, Items
<1>1. ASSUME NEW i \in Items, NEW goal \in {"pin", "unpin", "delete"}, ReadItem(c, i, goal)
      PROVE  ContentInv'
  <2> DEFINE q == [pc |-> goal, item |-> i, who |-> {}]
  <2>1. q \in PostingRequests /\ Sound(q)
    BY <1>1 DEF ReadItem, Undeleted, PostingRequests, Sound
  <2> QED BY <1>0, <1>1, <2>1, OnlyRemembers DEF ReadItem, Remembers
<1>2. ASSUME NEW i \in Items, ReadForReply(c, i)
      PROVE  ContentInv'
  <2> DEFINE q == [pc |-> "reply", item |-> i, who |-> {}]
  <2>1. q \in PostingRequests /\ Sound(q)
    BY <1>2 DEF ReadForReply, Undeleted, PostingRequests, Sound
  <2> QED BY <1>0, <1>2, <2>1, OnlyRemembers DEF ReadForReply, Remembers
<1>3. ASSUME NEW i \in Items, NEW u \in Members, ReadForLike(c, i, u)
      PROVE  ContentInv'
  <2> DEFINE q == [pc |-> "toggle", item |-> i, who |-> {u}]
  <2>1. q \in PostingRequests /\ Sound(q)
    BY <1>3 DEF ReadForLike, Undeleted, PostingRequests, Sound
  <2> QED BY <1>0, <1>3, <2>1, OnlyRemembers DEF ReadForLike, Remembers
<1>4. ASSUME FindLike(c)
      PROVE  ContentInv'
  <2> DEFINE p == posting[c]
             pc == IF p.who \subseteq likes[p.item] THEN "unlike" ELSE "like"
             q == [pc |-> pc, item |-> p.item, who |-> p.who]
  <2>1. p \in PostingRequests /\ Sound(p) /\ p.pc = "toggle"
    BY <1>4 DEF FindLike, Does, ContentInv, ContentTypeOK, PostingRequests, RequestsSound
  <2>2. q \in PostingRequests /\ Sound(q)
    BY <2>1 DEF PostingRequests, Sound
  <2>3. UNCHANGED <<item, likes, replyCount, pinned>> /\ posting' = [posting EXCEPT ![c] = q]
    BY <1>4 DEF FindLike, Remembers
  <2> QED BY <1>0, <2>2, <2>3, OnlyRemembers
<1>5. ASSUME Pin(c) \/ Unpin(c) \/ Abandon(c)
      PROVE  ContentInv'
  BY <1>0, <1>5, NoRequestSound, OnlyRemembers DEF Pin, Unpin, Abandon, Ends
<1> QED BY <1>0, <1>1, <1>2, <1>3, <1>4, <1>5

-----------------------------------------------------------------------------
\* A step that changes the status or the deletion mark of rows that were made,
\* and leaves the likes alone.
LEMMA StatusSteps ==
  ASSUME ContentInv, ContentTypeOK', UNCHANGED likes, RepliesNotOvercounted',
         \A i \in Items : /\ item'[i].likeCount = item[i].likeCount
                          /\ item'[i].status = "none" => item'[i] = item[i]
                          /\ item[i].status # "none" => item'[i].status # "none",
         \A c \in Posting : posting'[c] = posting[c] \/ posting'[c] = NoRequest
  PROVE  ContentInv'
<1>1. LikesExact' /\ Unmade'
  BY DEF ContentInv, LikesExact, Unmade
<1>2. ASSUME NEW c \in Posting
      PROVE  Sound(posting[c])'
  BY <1>2 DEF ContentInv, RequestsSound, ContentTypeOK, Sound, NoRequest
<1> QED BY <1>1, <1>2 DEF ContentInv, RequestsSound

LEMMA CreatePostKeeps ==
  ASSUME ContentInv, CreatePost
  PROVE  ContentInv'
<1>1. ContentTypeOK'
  BY RepliesAssumption DEF ContentInv, ContentTypeOK, CreatePost, Items, Replies
<1>2. RepliesNotOvercounted'
  <2>1. \A i \in Replies : i \in Items /\ i # 0
    BY RepliesAssumption DEF Replies, Items
  <2>2. \A i \in Replies : Undeleted(i)' = Undeleted(i)
    BY <2>1 DEF ContentInv, ContentTypeOK, CreatePost, Undeleted
  <2>3. {i \in Replies : Undeleted(i)}' = {i \in Replies : Undeleted(i)}
    BY <2>2
  <2> QED BY <2>3 DEF ContentInv, CreatePost, RepliesNotOvercounted
<1>3. \A i \in Items : /\ item'[i].likeCount = item[i].likeCount
                       /\ item'[i].status = "none" => item'[i] = item[i]
                       /\ item[i].status # "none" => item'[i].status # "none"
  BY DEF ContentInv, ContentTypeOK, CreatePost
<1> QED BY <1>1, <1>2, <1>3, StatusSteps DEF CreatePost

LEMMA ModerateKeeps ==
  ASSUME ContentInv, NEW j \in Items, NEW s \in {"PUBLISHED", "HIDDEN"}, Moderate(j, s)
  PROVE  ContentInv'
<1>1. ContentTypeOK'
  BY DEF ContentInv, ContentTypeOK, Moderate
<1>2. \A i \in Items : Undeleted(i)' = Undeleted(i)
  BY DEF ContentInv, ContentTypeOK, Moderate, Undeleted
<1>3. RepliesNotOvercounted'
  BY <1>2 DEF ContentInv, Moderate, RepliesNotOvercounted, Items
<1>4. \A i \in Items : /\ item'[i].likeCount = item[i].likeCount
                       /\ item'[i].status = "none" => item'[i] = item[i]
                       /\ item[i].status # "none" => item'[i].status # "none"
  BY DEF ContentInv, ContentTypeOK, Moderate
<1> QED BY <1>1, <1>3, <1>4, StatusSteps DEF Moderate

\* What a deletion marks, by id: at most one reply fewer is left.
LEMMA MarkDeletedSteps ==
  ASSUME ContentInv, NEW j \in Items, MarkDeleted(j)
  PROVE  /\ item' \in [Items -> [status : {"none", "PUBLISHED", "HIDDEN", "DELETED"},
                                 deleted : BOOLEAN, likeCount : Int, parent : Items]]
         /\ \A i \in Items : /\ item'[i].likeCount = item[i].likeCount
                             /\ item'[i].status = "none" => item'[i] = item[i]
                             /\ item[i].status # "none" => item'[i].status # "none"
         /\ Left' = Left \ {j}
<1>1. item'[j] = [item[j] EXCEPT !.deleted = TRUE, !.status = "DELETED"]
      /\ \A i \in Items \ {j} : item'[i] = item[i]
  BY DEF ContentInv, ContentTypeOK, MarkDeleted
<1>2. item' \in [Items -> [status : {"none", "PUBLISHED", "HIDDEN", "DELETED"},
                          deleted : BOOLEAN, likeCount : Int, parent : Items]]
  <2>1. item \in [Items -> [status : {"none", "PUBLISHED", "HIDDEN", "DELETED"},
                           deleted : BOOLEAN, likeCount : Int, parent : Items]]
    BY DEF ContentInv, ContentTypeOK
  <2> QED BY <2>1 DEF MarkDeleted
<1>3. item'[j].deleted /\ item'[j].status = "DELETED" /\ item'[j].likeCount = item[j].likeCount
  BY <1>1 DEF ContentInv, ContentTypeOK
<1>4. Left' = Left \ {j}
  <2>1. ~Undeleted(j)'
    BY <1>3 DEF Undeleted
  <2>2. \A i \in Replies \ {j} : Undeleted(i)' <=> Undeleted(i)
    BY <1>1 DEF Undeleted, Items
  <2> QED BY <2>1, <2>2 DEF Left
<1> QED BY <1>1, <1>2, <1>3, <1>4

LEMMA DeletePostKeeps ==
  ASSUME ContentInv, NEW c \in Posting, DeletePost(c)
  PROVE  ContentInv'
<1>1. MarkDeleted(0) /\ 0 \in Items
  BY DEF DeletePost, Items
<1>2. ContentTypeOK'
  BY <1>1, MarkDeletedSteps, NoRequestSound
     DEF ContentInv, ContentTypeOK, DeletePost, Ends, PostingRequests
<1>3. Left' = Left
  BY <1>1, MarkDeletedSteps DEF Left, Replies
<1>4. RepliesNotOvercounted'
  BY <1>3 DEF ContentInv, RepliesNotOvercounted, DeletePost, Left
<1>5. \A d \in Posting : posting'[d] = posting[d] \/ posting'[d] = NoRequest
  BY DEF ContentInv, ContentTypeOK, DeletePost, Ends
<1> QED BY <1>1, <1>2, <1>4, <1>5, MarkDeletedSteps, StatusSteps DEF DeletePost

LEMMA DeleteReplyKeeps ==
  ASSUME ContentInv, NEW c \in Posting, DeleteReply(c)
  PROVE  ContentInv'
<1> DEFINE j == posting[c].item
<1>1. MarkDeleted(j) /\ j \in Items
  BY DEF ContentInv, ContentTypeOK, DeleteReply
<1>2. replyCount \in Int /\ replyCount' = replyCount - 1
  BY DEF ContentInv, ContentTypeOK, DeleteReply
<1>3. ContentTypeOK'
  BY <1>1, <1>2, MarkDeletedSteps, NoRequestSound
     DEF ContentInv, ContentTypeOK, DeleteReply, Ends, PostingRequests
<1>4. Cardinality(Left) \in Nat /\ Cardinality(Left \ {j}) >= Cardinality(Left) - 1
  BY LeftFinite, OneMoreOrLess
<1>5. Cardinality(Left \ {j}) \in Nat
  <2>1. IsFiniteSet(Left \ {j})
    BY LeftFinite, FS_Subset
  <2> QED BY <2>1, FS_CardinalityType
<1>6. replyCount' <= Cardinality(Left')
  <2>1. replyCount <= Cardinality(Left)
    BY DEF ContentInv, RepliesNotOvercounted, Left
  <2>2. Left' = Left \ {j}
    BY <1>1, MarkDeletedSteps
  <2> HIDE DEF j
  <2> QED BY <1>2, <1>4, <1>5, <2>1, <2>2
<1>7. RepliesNotOvercounted'
  BY <1>6 DEF RepliesNotOvercounted, Left
<1>8. \A d \in Posting : posting'[d] = posting[d] \/ posting'[d] = NoRequest
  BY DEF ContentInv, ContentTypeOK, DeleteReply, Ends
<1> QED BY <1>1, <1>3, <1>7, <1>8, MarkDeletedSteps, StatusSteps DEF DeleteReply

-----------------------------------------------------------------------------
\* A new reply is one more that is left, without likes.
LEMMA CreateReplyKeeps ==
  ASSUME ContentInv, NEW c \in Posting, CreateReply(c)
  PROVE  ContentInv'
<1>1. PICK j \in Replies :
        /\ item[j].status = "none"
        /\ item' = [item EXCEPT ![j] = NewReply(posting[c].item)]
  BY DEF CreateReply
<1>2. j \in Items /\ item[j] = NoItem /\ likes[j] = {} /\ posting[c].item \in Items
  BY <1>1 DEF ContentInv, ContentTypeOK, Unmade, Items
<1>3. /\ replyCount \in Int /\ replyCount' = replyCount + 1 /\ likes' = likes /\ pinned' = pinned
      /\ posting' = [posting EXCEPT ![c] = NoRequest]
  BY DEF ContentInv, ContentTypeOK, CreateReply, Ends
<1>4. item' = [item EXCEPT ![j] = [status |-> "PUBLISHED", deleted |-> FALSE, likeCount |-> 0,
                                   parent |-> posting[c].item]]
  BY <1>1 DEF NewReply
<1>5. ContentTypeOK'
  BY <1>2, <1>3, <1>4, NoRequestSound DEF ContentInv, ContentTypeOK, PostingRequests
<1>6. j \notin Left /\ Left' = Left \cup {j}
  BY <1>1, <1>2, <1>4 DEF ContentInv, ContentTypeOK, Left, Undeleted, Items, NoItem
<1>7. replyCount' <= Cardinality(Left')
  <2>1. Cardinality(Left \cup {j}) = Cardinality(Left) + 1 /\ Cardinality(Left) \in Nat
    BY <1>6, LeftFinite, OneMoreOrLess
  <2>2. replyCount <= Cardinality(Left)
    BY DEF ContentInv, RepliesNotOvercounted, Left
  <2> QED BY <1>3, <1>6, <2>1, <2>2
<1>8. RepliesNotOvercounted'
  BY <1>7 DEF RepliesNotOvercounted, Left
<1>9. LikesExact' /\ Unmade'
  <2>1. /\ item'[j].likeCount = 0 /\ item'[j].status # "none" /\ likes'[j] = {}
        /\ \A i \in Items \ {j} : item'[i] = item[i] /\ likes'[i] = likes[i]
    BY <1>2, <1>3, <1>4 DEF ContentInv, ContentTypeOK
  <2> QED BY <2>1, FS_EmptySet DEF ContentInv, LikesExact, Unmade
<1>10. RequestsSound'
  BY <1>2, <1>3, <1>4 DEF ContentInv, ContentTypeOK, RequestsSound, Sound, NoRequest
<1> QED BY <1>5, <1>8, <1>9, <1>10 DEF ContentInv

\* The counter of one item moves with its likes.
LEMMA CounterSteps ==
  ASSUME ContentInv, NEW j \in Items, item[j].status # "none",
         NEW S \in SUBSET Members, NEW n \in Int, n = Cardinality(S),
         likes' = [likes EXCEPT ![j] = S],
         item' = [item EXCEPT ![j].likeCount = n],
         UNCHANGED <<replyCount, pinned>>,
         posting' \in [Posting -> PostingRequests]
  PROVE  ContentTypeOK' /\ LikesExact' /\ RepliesNotOvercounted' /\ Unmade'
<1>1. ContentTypeOK'
  BY DEF ContentInv, ContentTypeOK, PostingRequests
<1>2. LikesExact'
  BY DEF ContentInv, ContentTypeOK, LikesExact
<1>3. \A i \in Replies : Undeleted(i)' = Undeleted(i)
  BY DEF ContentInv, ContentTypeOK, Undeleted, Items
<1>4. RepliesNotOvercounted'
  BY <1>3 DEF ContentInv, RepliesNotOvercounted
<1>5. Unmade'
  BY DEF ContentInv, ContentTypeOK, Unmade
<1> QED BY <1>1, <1>2, <1>4, <1>5

LEMMA LikeKeeps ==
  ASSUME ContentInv, NEW c \in Posting, Like(c)
  PROVE  ContentInv'
<1>1. PICK u \in Members : posting[c].who = {u}
  BY DEF ContentInv, ContentTypeOK, RequestsSound, Sound, Like, Does
<1> DEFINE j == posting[c].item
           S == likes[j] \cup {u}
<1>2. /\ j \in Items /\ item[j].status # "none" /\ u \notin likes[j]
      /\ S \in SUBSET Members /\ item[j].likeCount \in Int
  BY <1>1 DEF ContentInv, ContentTypeOK, RequestsSound, Sound, Like, Does
<1>3. item[j].likeCount + 1 = Cardinality(S) /\ item[j].likeCount + 1 \in Int
  BY <1>2, LikesFinite, OneMoreOrLess DEF ContentInv, LikesExact
<1>4. /\ likes' = [likes EXCEPT ![j] = S]
      /\ item' = [item EXCEPT ![j].likeCount = item[j].likeCount + 1]
      /\ UNCHANGED <<replyCount, pinned>>
      /\ posting' = [posting EXCEPT ![c] = NoRequest]
  BY <1>1, <1>2 DEF ContentInv, ContentTypeOK, Like, Ends
<1>5. posting' \in [Posting -> PostingRequests]
  BY <1>4, NoRequestSound DEF ContentInv, ContentTypeOK, PostingRequests
<1>6. ContentTypeOK' /\ LikesExact' /\ RepliesNotOvercounted' /\ Unmade'
  <2> HIDE DEF S, j
  <2> QED BY <1>2, <1>3, <1>4, <1>5, CounterSteps
<1>7. RequestsSound'
  BY <1>2, <1>4 DEF ContentInv, ContentTypeOK, RequestsSound, Sound, NoRequest
<1> QED BY <1>6, <1>7 DEF ContentInv

\* Whoever else found the removed row is sent away; other rows stay.
LEMMA UnlikeKeeps ==
  ASSUME ContentInv, NEW c \in Posting, Unlike(c)
  PROVE  ContentInv'
<1>1. PICK u \in Members : posting[c].who = {u}
  BY DEF ContentInv, ContentTypeOK, RequestsSound, Sound, Unlike, Does
<1> DEFINE j == posting[c].item
           S == likes[j] \ {u}
<1>2. /\ j \in Items /\ item[j].status # "none" /\ u \in likes[j]
      /\ S \in SUBSET Members /\ item[j].likeCount \in Int
  BY <1>1 DEF ContentInv, ContentTypeOK, RequestsSound, Sound, Unlike, Does
<1>3. item[j].likeCount - 1 = Cardinality(S) /\ item[j].likeCount - 1 \in Int
  BY <1>2, LikesFinite, OneMoreOrLess DEF ContentInv, LikesExact
<1>4. /\ likes' = [likes EXCEPT ![j] = S]
      /\ item' = [item EXCEPT ![j].likeCount = item[j].likeCount - 1]
      /\ UNCHANGED <<replyCount, pinned>>
  BY <1>1, <1>2 DEF ContentInv, ContentTypeOK, Unlike
<1>5. \A d \in Posting :
        \/ posting'[d] = NoRequest
        \/ posting[d] = posting[c] /\ posting'[d] = [posting[d] EXCEPT !.pc = "gone"]
        \/ posting[d] # posting[c] /\ posting'[d] = posting[d]
  BY DEF Unlike
<1>6. posting' \in [Posting -> PostingRequests]
  <2>1. posting \in [Posting -> PostingRequests] /\ NoRequest \in PostingRequests
    BY NoRequestSound DEF ContentInv, ContentTypeOK, PostingRequests
  <2>2. \A q \in PostingRequests : [q EXCEPT !.pc = "gone"] \in PostingRequests
    BY DEF PostingRequests
  <2> QED BY <2>1, <2>2 DEF Unlike
<1>7. ContentTypeOK' /\ LikesExact' /\ RepliesNotOvercounted' /\ Unmade'
  <2> HIDE DEF S, j
  <2> QED BY <1>2, <1>3, <1>4, <1>6, CounterSteps
<1>8. ASSUME NEW d \in Posting
      PROVE  Sound(posting[d])'
  <2>1. posting[d] \in PostingRequests /\ posting[c] \in PostingRequests /\ Sound(posting[d])
    BY DEF ContentInv, ContentTypeOK, RequestsSound, PostingRequests
  <2>2. \A i \in Items : item'[i].status = item[i].status
    BY <1>2, <1>4 DEF ContentInv, ContentTypeOK
  <2>3. CASE posting'[d] = NoRequest
    BY <2>3 DEF Sound, NoRequest
  <2>4. CASE posting[d] = posting[c] /\ posting'[d] = [posting[d] EXCEPT !.pc = "gone"]
    <3>1. /\ posting'[d].pc = "gone" /\ posting'[d].item = posting[c].item
          /\ posting'[d].who = posting[c].who
      BY <2>1, <2>4 DEF PostingRequests
    <3> QED BY <1>1, <1>2, <2>2, <3>1 DEF Sound
  <2>5. CASE posting[d] # posting[c] /\ posting'[d] = posting[d]
    <3>1. /\ posting[d].pc # "idle" => item'[posting[d].item].status # "none"
          /\ posting[d].pc \in {"toggle", "like", "unlike", "gone"} => posting[d].who # {}
      BY <2>1, <2>2 DEF Sound, PostingRequests
    <3>2. ASSUME posting[d].pc = "unlike"
          PROVE  posting[d].who \subseteq likes'[posting[d].item]
      <4>1. posting[d].item # j \/ posting[d].who # {u}
        <5>1. posting[c].pc = "unlike"
          BY DEF Unlike, Does
        <5>2. \A p, q \in PostingRequests : p.pc = q.pc /\ p.item = q.item /\ p.who = q.who => p = q
          BY DEF PostingRequests
        <5> QED BY <1>1, <2>1, <2>5, <3>2, <5>1, <5>2
      <4>2. posting[d].who \subseteq likes[posting[d].item] /\ posting[d].item \in Items
        BY <2>1, <3>2 DEF Sound, PostingRequests
      <4>3. u \notin posting[d].who \/ posting[d].item # j
        BY <2>1, <4>1 DEF PostingRequests
      <4> QED BY <1>2, <1>4, <4>2, <4>3 DEF ContentInv, ContentTypeOK
    <3> QED BY <2>5, <3>1, <3>2 DEF Sound
  <2> QED BY <1>5, <2>3, <2>4, <2>5
<1> QED BY <1>7, <1>8 DEF ContentInv, RequestsSound

-----------------------------------------------------------------------------
\* Every step preserves the inductive invariant.
LEMMA ContentStep == ContentInv /\ [ContentNext]_contentVars => ContentInv'
<1> SUFFICES ASSUME ContentInv, [ContentNext]_contentVars PROVE ContentInv'
  OBVIOUS
<1>1. CASE CreatePost
  BY <1>1, CreatePostKeeps
<1>2. CASE \E i \in Items, s \in {"PUBLISHED", "HIDDEN"} : Moderate(i, s)
  BY <1>2, ModerateKeeps
<1>3. ASSUME NEW c \in Posting,
             \/ ReadItem(c, 0, "pin") \/ ReadItem(c, 0, "unpin") \/ Pin(c) \/ Unpin(c)
             \/ \E i \in Items : \/ ReadItem(c, i, "delete") \/ ReadForReply(c, i)
                                 \/ \E u \in Members : ReadForLike(c, i, u)
             \/ FindLike(c) \/ Abandon(c)
      PROVE  ContentInv'
  BY <1>3, ReadsKeep
<1>4. ASSUME NEW c \in Posting,
             DeletePost(c) \/ DeleteReply(c) \/ CreateReply(c) \/ Like(c) \/ Unlike(c)
      PROVE  ContentInv'
  BY <1>4, DeletePostKeeps, DeleteReplyKeeps, CreateReplyKeeps, LikeKeeps, UnlikeKeeps
<1>5. CASE UNCHANGED contentVars
  BY <1>5 DEF contentVars, ContentInv, ContentTypeOK, LikesExact, RepliesNotOvercounted,
              Undeleted, Unmade, RequestsSound, Sound
<1> QED BY <1>1, <1>2, <1>3, <1>4, <1>5 DEF ContentNext

\* The inductive invariant holds in every reachable state.
LEMMA ContentInvariant == ContentSpec => []ContentInv
BY InitContentInv, ContentStep, PTL DEF ContentSpec

\* The rows, the likes and the requests stay of their types.
THEOREM ContentTypeCorrect == ContentSpec => []ContentTypeOK
<1>1. ContentInv => ContentTypeOK
  BY DEF ContentInv
<1> QED BY <1>1, ContentInvariant, PTL

\* likeCount of a post or a reply is the number of its likes, however many
\* toggles of one member or of several interleave with deletion and moderation.
THEOREM LikesCounted == ContentSpec => []LikesExact
<1>1. ContentInv => LikesExact
  BY DEF ContentInv
<1> QED BY <1>1, ContentInvariant, PTL

\* replyCount of a post is never above the replies that are not deleted,
\* whatever creates, deletes and moderation overlap.
THEOREM RepliesCounted == ContentSpec => []RepliesNotOvercounted
<1>1. ContentInv => RepliesNotOvercounted
  BY DEF ContentInv
<1> QED BY <1>1, ContentInvariant, PTL

-----------------------------------------------------------------------------
(* The thread.  The tree is a function defined by recursion on the depth:  *)
(* it exists because the replies that hang from a root by a chain of       *)
(* parents satisfy its equation, and what it contains is shown by the      *)
(* least counterexample, a depth or a reply.  No reply is lost, for the    *)
(* parent of a reply was made before it.                                   *)

LEMMA LeastNat == ASSUME NEW T \in SUBSET Nat, T # {} PROVE \E x \in T : \A y \in T : x <= y
<1> DEFINE R == OpToRel(<, Nat)
<1>1. IsWellFoundedOn(R, Nat)
  BY NatLessThanWellFounded
<1> HIDE DEF R
<1>2. PICK x \in T : \A y \in T : ~ (<<y, x>> \in R)
  BY <1>1, WFMin
<1>3. \A y \in T : ~(y < x)
  BY <1>2 DEF R, OpToRel
<1> QED BY <1>3

\* p leads from a root to i, over k replies that are shown.
Leads(p, k, i) ==
  /\ p \in [0..k -> Replies] /\ p[0] \in Roots /\ p[k] = i
  /\ \A j \in 1..k : InThread(p[j]) /\ item[p[j]].parent = p[j - 1]

Hanging(d) == {i \in Replies : \E k \in 0..d : \E p \in [0..k -> Replies] : Leads(p, k, i)}

LEMMA HangingRoots == Hanging(0) = Roots
<1>1. Roots \subseteq Replies
  BY DEF Roots
<1>2. ASSUME NEW i \in Roots PROVE i \in Hanging(0)
  <2> DEFINE p == [j \in 0..0 |-> i]
  <2>1. p \in [0..0 -> Replies] /\ p[0] = i
    BY <1>1, <1>2
  <2>2. Leads(p, 0, i)
    BY <1>2, <2>1 DEF Leads
  <2> QED BY <1>1, <2>1, <2>2 DEF Hanging
<1>3. ASSUME NEW i \in Hanging(0) PROVE i \in Roots
  BY DEF Hanging, Leads
<1> QED BY <1>2, <1>3

LEMMA HangingStep ==
  ASSUME NEW n \in Nat
  PROVE  Hanging(n + 1) = Hanging(n) \cup {i \in Replies : InThread(i) /\ item[i].parent \in Hanging(n)}
<1>1. ASSUME NEW i \in Hanging(n) PROVE i \in Hanging(n + 1)
  <2>1. 0..n \subseteq 0..(n + 1)
    OBVIOUS
  <2> QED BY <2>1 DEF Hanging
<1>2. ASSUME NEW i \in Replies, InThread(i), item[i].parent \in Hanging(n) PROVE i \in Hanging(n + 1)
  <2>0. PICK k \in 0..n : \E p \in [0..k -> Replies] : Leads(p, k, item[i].parent)
    BY <1>2 DEF Hanging
  <2>1. PICK p \in [0..k -> Replies] : Leads(p, k, item[i].parent)
    BY <2>0
  <2> DEFINE q == [j \in 0..(k + 1) |-> IF j = k + 1 THEN i ELSE p[j]]
  <2>2. k + 1 \in 0..(n + 1) /\ k \in Nat
    OBVIOUS
  <2>3. /\ q \in [0..(k + 1) -> Replies] /\ q[k + 1] = i
        /\ \A j \in 0..k : q[j] = p[j]
    BY <2>2
  <2> HIDE DEF q
  <2>4. Leads(q, k + 1, i)
    <3>1. q[0] \in Roots /\ q[k] = item[i].parent
      BY <2>1, <2>2, <2>3 DEF Leads
    <3>2. ASSUME NEW j \in 1..(k + 1) PROVE InThread(q[j]) /\ item[q[j]].parent = q[j - 1]
      <4>1. CASE j = k + 1
        <5>1. j - 1 = k
          BY <2>2, <4>1
        <5> QED BY <1>2, <2>3, <3>1, <4>1, <5>1
      <4>2. CASE j # k + 1
        <5>1. j \in 1..k /\ j \in 0..k /\ j - 1 \in 0..k
          BY <2>2, <4>2
        <5> QED BY <2>1, <2>3, <5>1 DEF Leads
      <4> QED BY <4>1, <4>2
    <3> QED BY <2>3, <3>1, <3>2 DEF Leads
  <2> QED BY <2>2, <2>3, <2>4 DEF Hanging
<1>3. ASSUME NEW i \in Hanging(n + 1), i \notin Hanging(n)
      PROVE  i \in Replies /\ InThread(i) /\ item[i].parent \in Hanging(n)
  <2>0. PICK k \in 0..(n + 1) : \E p \in [0..k -> Replies] : Leads(p, k, i)
    BY <1>3 DEF Hanging
  <2>1. PICK p \in [0..k -> Replies] : Leads(p, k, i)
    BY <2>0
  <2>2. k = n + 1 /\ i \in Replies
    BY <1>3, <2>1 DEF Hanging
  <2>3. n + 1 \in 1..k /\ (n + 1) - 1 = n
    BY <2>2
  <2>4. InThread(i) /\ item[i].parent = p[n]
    BY <2>1, <2>2, <2>3 DEF Leads
  <2> DEFINE q == [j \in 0..n |-> p[j]]
  <2>5. /\ q \in [0..n -> Replies] /\ \A j \in 0..n : q[j] = p[j]
    BY <2>1, <2>2
  <2> HIDE DEF q
  <2>6. Leads(q, n, p[n])
    <3>1. 0 \in 0..n /\ n \in 0..n /\ \A j \in 1..n : j \in 0..n /\ j - 1 \in 0..n /\ j \in 1..k
      BY <2>2
    <3> QED BY <2>1, <2>5, <3>1 DEF Leads
  <2>7. p[n] \in Replies /\ n \in 0..n
    BY <2>1, <2>2
  <2> QED BY <2>2, <2>4, <2>5, <2>6, <2>7 DEF Hanging
<1>4. Hanging(n) \subseteq Replies
  BY DEF Hanging
<1> QED BY <1>1, <1>2, <1>3, <1>4

\* The equation of the tree.
LEMMA TreeLevels ==
  /\ Tree[0] = Roots
  /\ \A n \in Nat : Tree[n + 1] = Tree[n] \cup {i \in Replies : InThread(i) /\ item[i].parent \in Tree[n]}
<1> DEFINE H == [d \in Nat |-> Hanging(d)]
           Level(T, d) == IF d = 0 THEN Roots
                          ELSE T[d - 1] \cup {i \in Replies : InThread(i) /\ item[i].parent \in T[d - 1]}
<1>1. H = [d \in Nat |-> Level(H, d)]
  <2>1. ASSUME NEW d \in Nat PROVE Hanging(d) = Level(H, d)
    <3>1. CASE d = 0
      BY <3>1, HangingRoots
    <3>2. CASE d # 0
      <4>1. d - 1 \in Nat /\ (d - 1) + 1 = d
        BY <3>2
      <4>2. H[d - 1] = Hanging(d - 1)
        BY <4>1
      <4>3. Hanging((d - 1) + 1) = Hanging(d - 1) \cup {i \in Replies : InThread(i) /\ item[i].parent \in Hanging(d - 1)}
        BY <4>1, HangingStep
      <4> QED BY <3>2, <4>1, <4>2, <4>3
    <3> QED BY <3>1, <3>2
  <2> QED BY <2>1
<1> HIDE DEF H
<1>2. Tree = [d \in Nat |-> Level(Tree, d)]
  BY <1>1 DEF Tree
<1>3. ASSUME NEW d \in Nat PROVE Tree[d] = Level(Tree, d)
  BY <1>2
<1>4. ASSUME NEW n \in Nat PROVE (n + 1) \in Nat /\ n + 1 # 0 /\ (n + 1) - 1 = n
  OBVIOUS
<1>5. ASSUME NEW n \in Nat
      PROVE  Tree[n + 1] = Tree[n] \cup {i \in Replies : InThread(i) /\ item[i].parent \in Tree[n]}
  <2> DEFINE d == n + 1
  <2>1. d \in Nat /\ d # 0 /\ d - 1 = n
    BY <1>4
  <2> HIDE DEF d
  <2>2. Tree[d] = Tree[n] \cup {i \in Replies : InThread(i) /\ item[i].parent \in Tree[n]}
    BY <1>3, <2>1
  <2> QED BY <2>2 DEF d
<1>6. Tree[0] = Roots
  BY <1>3
<1> QED BY <1>5, <1>6

LEMMA TreeInThread == ASSUME NEW n \in Nat PROVE Tree[n] \subseteq {i \in Replies : InThread(i)}
<1> DEFINE Bad == {d \in Nat : ~(Tree[d] \subseteq {i \in Replies : InThread(i)})}
<1>1. ASSUME Bad # {} PROVE FALSE
  <2>1. PICK d \in Bad : \A e \in Bad : d <= e
    BY <1>1, LeastNat
  <2>2. d # 0
    BY <2>1, TreeLevels DEF Roots
  <2>3. d - 1 \in Nat /\ (d - 1) + 1 = d /\ d - 1 \notin Bad
    BY <2>1, <2>2
  <2>4. Tree[(d - 1) + 1] = Tree[d - 1] \cup {i \in Replies : InThread(i) /\ item[i].parent \in Tree[d - 1]}
    BY <2>3, TreeLevels
  <2> QED BY <2>1, <2>3, <2>4
<1> QED BY <1>1

LEMMA TreeGrows ==
  ASSUME NEW m \in Nat, NEW n \in Nat, m <= n
  PROVE  Tree[m] \subseteq Tree[n]
<1> DEFINE Bad == {d \in Nat : m <= d /\ ~(Tree[m] \subseteq Tree[d])}
<1>1. ASSUME Bad # {} PROVE FALSE
  <2>1. PICK d \in Bad : \A e \in Bad : d <= e
    BY <1>1, LeastNat
  <2>2. d # m
    BY <2>1
  <2>3. d - 1 \in Nat /\ m <= d - 1 /\ (d - 1) + 1 = d /\ d - 1 \notin Bad
    BY <2>1, <2>2
  <2>4. Tree[d - 1] \subseteq Tree[(d - 1) + 1]
    BY <2>3, TreeLevels
  <2> QED BY <2>1, <2>3, <2>4
<1> QED BY <1>1

\* Replies are made in order, and a reply after its parent.
MadeInOrder == \A i, j \in Replies : i < j /\ item[j].status # "none" => item[i].status # "none"
ParentsFirst == \A i \in Replies : item[i].status # "none" => item[i].parent < i

ThreadInv == ContentInv /\ MadeInOrder /\ ParentsFirst

LEMMA TreeHasAll ==
  ASSUME ContentTypeOK, ParentsFirst, NEW i \in Replies, InThread(i)
  PROVE  i \in Tree[i]
<1> DEFINE Bad == {j \in Replies : InThread(j) /\ j \notin Tree[j]}
<1>1. ASSUME Bad # {} PROVE FALSE
  <2>1. Bad \in SUBSET Nat
    BY RepliesAssumption DEF Replies
  <2>2. PICK j \in Bad : \A k \in Bad : j <= k
    BY <1>1, <2>1, LeastNat
  <2>3. j \in Replies /\ j \in Nat /\ j # 0 /\ InThread(j) /\ j \notin Tree[j]
    BY <2>2, RepliesAssumption DEF Replies
  <2> HIDE DEF Bad
  <2> DEFINE p == item[j].parent
  <2>4. j \notin Roots
    <3>1. Tree[0] \subseteq Tree[j]
      BY <2>3, TreeGrows
    <3> QED BY <2>3, <3>1, TreeLevels
  <2>5. p # 0 /\ InThread(p)
    BY <2>3, <2>4 DEF Roots
  <2>6. p \in Replies /\ p \in Nat /\ p < j
    <3>1. item[j].status # "none"
      BY <2>3 DEF InThread, InFeed, Undeleted
    <3>2. p < j
      BY <2>3, <3>1 DEF ParentsFirst
    <3>3. p \in Items
      BY <2>3 DEF ContentTypeOK, Items
    <3> QED BY <2>5, <3>2, <3>3, RepliesAssumption DEF Items, Replies
  <2>7. p \in Tree[p]
    BY <2>2, <2>3, <2>5, <2>6 DEF Bad
  <2>8. j - 1 \in Nat /\ p <= j - 1 /\ (j - 1) + 1 = j
    BY <2>3, <2>6
  <2>9. p \in Tree[j - 1]
    BY <2>6, <2>7, <2>8, TreeGrows
  <2>10. j \in Tree[(j - 1) + 1]
    BY <2>3, <2>8, <2>9, TreeLevels
  <2> QED BY <2>3, <2>8, <2>10
<1> QED BY <1>1

\* Nothing is shown that is deleted.
LEMMA ShownIsUndeleted == Shown \subseteq {i \in Items : Undeleted(i)}
<1>1. Tree[MaxReplies] \subseteq {i \in Replies : InThread(i)}
  BY RepliesAssumption, TreeInThread
<1> QED BY <1>1 DEF Shown, InThread, InFeed, Items

\* What a step does to an item: it stays as deleted as it was, and once made.
LEMMA ItemsStep ==
  ASSUME ContentInv, [ContentNext]_contentVars
  PROVE  /\ \A i \in Items : item[i].deleted => item'[i].deleted
         /\ \/ \A i \in Items : /\ item'[i].parent = item[i].parent
                                /\ i # 0 => (item'[i].status = "none" <=> item[i].status = "none")
            \/ \E i \in Replies, c \in Posting :
                 /\ item[i].status = "none" /\ \A j \in 1..(i - 1) : item[j].status # "none"
                 /\ item' = [item EXCEPT ![i] = NewReply(posting[c].item)]
                 /\ item[posting[c].item].status # "none"
<1> DEFINE kept == \A i \in Items : /\ item'[i].parent = item[i].parent
                                    /\ item[i].deleted => item'[i].deleted
                                    /\ i # 0 => (item'[i].status = "none" <=> item[i].status = "none")
<1>0. item \in [Items -> [status : {"none", "PUBLISHED", "HIDDEN", "DELETED"}, deleted : BOOLEAN,
                         likeCount : Int, parent : Items]]
  BY DEF ContentInv, ContentTypeOK
<1>1. CASE UNCHANGED item
  BY <1>1
<1>2. ASSUME CreatePost PROVE kept
  BY <1>0, <1>2 DEF CreatePost
<1>3. ASSUME NEW i \in Items, NEW s \in {"PUBLISHED", "HIDDEN"}, Moderate(i, s) PROVE kept
  BY <1>0, <1>3 DEF Moderate
<1>4. ASSUME NEW i \in Items, MarkDeleted(i), item[i].status # "none" PROVE kept
  BY <1>0, <1>4 DEF MarkDeleted
<1>5. ASSUME NEW i \in Items, NEW n, item' = [item EXCEPT ![i].likeCount = n] PROVE kept
  BY <1>0, <1>5
<1> HIDE DEF kept
<1>6. ASSUME NEW c \in Posting, ~Does(c, "idle")
      PROVE  posting[c].item \in Items /\ item[posting[c].item].status # "none"
  BY <1>6 DEF ContentInv, ContentTypeOK, RequestsSound, Sound, Does
<1>7. ASSUME NEW c \in Posting, DeletePost(c) \/ DeleteReply(c) PROVE kept
  BY <1>4, <1>6, <1>7 DEF DeletePost, DeleteReply, Does
<1>8. ASSUME NEW c \in Posting, Like(c) PROVE kept
  BY <1>5, <1>6, <1>8 DEF Like, Does
<1>9. ASSUME NEW c \in Posting, Unlike(c) PROVE kept
  BY <1>5, <1>6, <1>9 DEF Unlike, Does
<1>10. ASSUME NEW c \in Posting, CreateReply(c)
       PROVE  \E i \in Replies :
                /\ item[i].status = "none" /\ \A j \in 1..(i - 1) : item[j].status # "none"
                /\ item' = [item EXCEPT ![i] = NewReply(posting[c].item)]
                /\ item[posting[c].item].status # "none"
                /\ \A j \in Items : item[j].deleted => item'[j].deleted
  <2>1. item[posting[c].item].status # "none"
    BY <1>6, <1>10 DEF CreateReply, Does
  <2>2. PICK i \in Replies :
          /\ item[i].status = "none" /\ \A j \in 1..(i - 1) : item[j].status # "none"
          /\ item' = [item EXCEPT ![i] = NewReply(posting[c].item)]
    BY <1>10 DEF CreateReply
  <2>3. i \in Items /\ ~item[i].deleted
    <3>1. i \in Items /\ item[i] = NoItem
      BY <2>2 DEF ContentInv, Unmade, Items
    <3>2. ~NoItem.deleted
      BY DEF NoItem
    <3> QED BY <3>1, <3>2
  <2>4. \A j \in Items : j # i => item'[j] = item[j]
    BY <1>0, <2>2
  <2> QED BY <2>1, <2>2, <2>3, <2>4
<1>11. \/ UNCHANGED item \/ CreatePost
       \/ \E i \in Items, s \in {"PUBLISHED", "HIDDEN"} : Moderate(i, s)
       \/ \E c \in Posting : \/ DeletePost(c) \/ DeleteReply(c) \/ CreateReply(c)
                             \/ Like(c) \/ Unlike(c)
  BY DEF ContentNext, contentVars, ReadItem, Pin, Unpin, ReadForReply, ReadForLike, FindLike, Abandon
<1> QED BY <1>1, <1>2, <1>3, <1>7, <1>8, <1>9, <1>10, <1>11 DEF kept

LEMMA ThreadStep == ThreadInv /\ [ContentNext]_contentVars => ThreadInv'
<1> SUFFICES ASSUME ThreadInv, [ContentNext]_contentVars PROVE ThreadInv'
  OBVIOUS
<1>1. ContentInv'
  BY ContentStep DEF ThreadInv
<1>2. CASE \A i \in Items : /\ item'[i].parent = item[i].parent
                            /\ i # 0 => (item'[i].status = "none" <=> item[i].status = "none")
  <2>1. \A i \in Replies : i \in Items /\ i # 0
    BY RepliesAssumption DEF Items, Replies
  <2> QED BY <1>1, <1>2, <2>1 DEF ThreadInv, MadeInOrder, ParentsFirst
<1>3. ASSUME NEW i \in Replies, NEW c \in Posting, item[i].status = "none",
             \A j \in 1..(i - 1) : item[j].status # "none",
             item' = [item EXCEPT ![i] = NewReply(posting[c].item)],
             item[posting[c].item].status # "none"
      PROVE  ThreadInv'
  <2> DEFINE p == posting[c].item
  <2>1. i \in Items /\ i \in Nat /\ i > 0 /\ p \in Items /\ DOMAIN item = Items
    BY RepliesAssumption DEF ThreadInv, ContentInv, ContentTypeOK, Replies, Items
  <2>2. item'[i] = NewReply(p) /\ \A j \in Items : j # i => item'[j] = item[j]
    BY <1>3, <2>1
  <2>3. NewReply(p).parent = p /\ NewReply(p).status = "PUBLISHED"
    BY DEF NewReply
  <2>4. \A j \in Replies : j \in Items /\ j \in Nat /\ (j < i => j \in 1..(i - 1))
    BY <2>1, RepliesAssumption DEF Replies, Items
  <2>5. p < i
    <3>1. CASE p = 0
      BY <2>1, <3>1
    <3>2. CASE p \in Replies
      <4>1. p # i /\ p \in Nat
        BY <1>3, <2>4, <3>2
      <4>2. ~(i < p)
        BY <1>3, <3>2 DEF ThreadInv, MadeInOrder
      <4> QED BY <2>1, <4>1, <4>2
    <3> QED BY <2>1, <3>1, <3>2 DEF Items
  <2> HIDE DEF p
  <2>6. ParentsFirst'
    BY <2>2, <2>3, <2>4, <2>5 DEF ThreadInv, ParentsFirst
  <2>7. MadeInOrder'
    BY <1>3, <2>2, <2>3, <2>4 DEF ThreadInv, MadeInOrder
  <2> QED BY <1>1, <2>6, <2>7 DEF ThreadInv
<1> QED BY <1>2, <1>3, ItemsStep DEF ThreadInv

LEMMA ThreadInvariance == ContentSpec => []ThreadInv
<1>1. ContentInit => ThreadInv
  <2> SUFFICES ASSUME ContentInit PROVE ThreadInv
    OBVIOUS
  <2>1. \A i \in Items : item[i].status = "none"
    BY DEF ContentInit, NoItem
  <2>2. MadeInOrder /\ ParentsFirst
    BY <2>1 DEF MadeInOrder, ParentsFirst, Items
  <2> QED BY <2>2, InitContentInv DEF ThreadInv
<1> QED BY <1>1, ThreadStep, PTL DEF ContentSpec

\* The tree that posts and their replies are shown in loses none of them, even
\* one below a parent that is hidden or deleted (community-replies.service.ts).
THEOREM NoReplyIsLost == ContentSpec => []ThreadShowsAll
<1>1. ASSUME ThreadInv PROVE ThreadShowsAll
  <2> SUFFICES ASSUME NEW i \in Replies, InThread(i) PROVE i \in Shown
    BY DEF ThreadShowsAll
  <2>1. i \in Tree[i]
    BY <1>1, TreeHasAll DEF ThreadInv, ContentInv
  <2>2. i \in Nat /\ MaxReplies \in Nat /\ i <= MaxReplies
    BY RepliesAssumption DEF Replies
  <2> QED BY <2>1, <2>2, TreeGrows DEF Shown
<1> QED BY <1>1, ThreadInvariance, PTL

\* What was deleted is never shown again, whatever moderation restores and
\* whatever requests had read before.
THEOREM DeletedStaysAway == ContentSpec => NeverResurfaces
<1> DEFINE Fair == Shown \subseteq {i \in Items : Undeleted(i)}
<1>1. ContentSpec => []Fair
  BY ShownIsUndeleted, PTL
<1>2. ASSUME ContentInv, [ContentNext]_contentVars, Fair'
      PROVE  \A i \in Items : item[i].deleted => i \notin Shown'
  BY <1>2, ItemsStep DEF Undeleted
<1> HIDE DEF Fair
<1> QED BY <1>1, <1>2, ContentInvariant, PTL DEF ContentSpec, NeverResurfaces

-----------------------------------------------------------------------------
(* The members.  The join that holds the community's row keeps what it     *)
(* checked until it commits: whoever archives, leaves or bans a member     *)
(* that counts waits for the row.  A leave, a ban and an unban look the    *)
(* member up first, and the counter follows what they saw.                 *)

Standings == {"none", "ACTIVE", "LEFT", "BANNED"}

\* A request that is under way is about a user; a leave saw an active member.
OtherRequest == {q \in [kind : {None, "leave", "ban", "unban", "role"},
                        user : Users \cup {None}, read : Standings \cup {None}] :
                   /\ q.kind # None => q.user \in Users
                   /\ q.kind = "leave" => q.read = "ACTIVE"
                   /\ q.kind = "unban" => q.read = "BANNED"}

MemberTypes ==
  /\ member \in [Users -> [status : Standings, role : {"MEMBER", "MODERATOR", "OWNER"}]]
  /\ memberCount \in Int
  /\ rowLocked \in Joins \cup {None}
  /\ join \in [Joins -> [user : Users \cup {None}, capacity : Nat]]
  /\ other \in [Others -> OtherRequest]

\* The join that holds the row is of a user who is not a member, in a
\* community that is there.
JoinChecked ==
  \A j \in Joins : rowLocked = j =>
    join[j].user \in Users /\ join[j].user \notin Membership!Active /\ archived = FALSE

\* It counted less than the capacity.
CapacityChecked == \A j \in Joins : rowLocked = j => memberCount < join[j].capacity

MemberInv == MemberTypes /\ JoinChecked /\ CapacityChecked

-----------------------------------------------------------------------------
\* The instance counts as this module does.
LEMMA SameCardinality == \A S : Membership!Cardinality(S) = Cardinality(S)
BY DEF Membership!Cardinality, Cardinality

LEMMA ActiveCounted ==
  ASSUME NEW S \in SUBSET Users, NEW T \in SUBSET S, NEW u
  PROVE  /\ Cardinality(S) \in Nat
         /\ Cardinality(T) \in Nat /\ Cardinality(T) <= Cardinality(S)
         /\ Cardinality(S \cup {u}) \in Nat /\ Cardinality(S \cup {u}) <= Cardinality(S) + 1
         /\ u \in S => Cardinality(S \ {u}) = Cardinality(S) - 1
<1>1. IsFiniteSet(S)
  BY LimitsAssumption, FS_Subset
<1>2. u \in S => Cardinality(S \ {u}) = Cardinality(S) - 1
  BY <1>1, FS_RemoveElement
<1> QED BY <1>1, <1>2, FS_Subset, FS_CardinalityType, FS_AddElement

LEMMA CapacityType == Membership!Capacity \in Nat
BY MembershipAssumption DEF Membership!Capacity

LEMMA MemberInit == Membership!Init => MemberInv
<1> SUFFICES ASSUME Membership!Init PROVE MemberInv
  OBVIOUS
<1>1. MemberTypes
  <2>1. member \in [Users -> [status : Standings, role : {"MEMBER", "MODERATOR", "OWNER"}]]
    BY DEF Membership!Init, Standings
  <2>2. /\ join \in [Joins -> [user : Users \cup {None}, capacity : Nat]]
        /\ rowLocked \in Joins \cup {None} /\ memberCount \in Int
    BY DEF Membership!Init, Membership!IdleJoin
  <2>3. other \in [Others -> OtherRequest]
    BY MembershipAssumption DEF Membership!Init, Membership!IdleOther, OtherRequest
  <2> QED BY <2>1, <2>2, <2>3 DEF MemberTypes
<1>2. JoinChecked /\ CapacityChecked
  BY MembershipAssumption DEF Membership!Init, JoinChecked, CapacityChecked
<1> QED BY <1>1, <1>2 DEF MemberInv

\* How far the counter is from a set of active members.
LEMMA DriftIs ==
  ASSUME MemberInv
  PROVE  /\ Membership!Active \in SUBSET Users /\ memberCount \in Int
         /\ Cardinality(Membership!Active) \in Nat
         /\ Membership!Drift = memberCount - Cardinality(Membership!Active)
         /\ Membership!Drift' = memberCount' - Cardinality(Membership!Active')
<1>1. Membership!Active \in SUBSET Users /\ memberCount \in Int
  BY DEF Membership!Active, MemberInv, MemberTypes
<1>2. Membership!Drift = memberCount - Cardinality(Membership!Active)
  BY SameCardinality DEF Membership!Drift
<1>3. Membership!Drift' = memberCount' - Cardinality(Membership!Active')
  BY SameCardinality DEF Membership!Drift
<1> QED BY <1>1, <1>2, <1>3, ActiveCounted

\* Nothing moves.
LEMMA NoDrift ==
  ASSUME MemberInv, UNCHANGED <<memberCount, Membership!Active>> PROVE Membership!Follows
<1>1. Membership!Drift' = Membership!Drift /\ Membership!Drift \in Int
  BY DriftIs
<1> QED BY <1>1 DEF Membership!Follows

\* A new status of one member: nobody else becomes or ceases to be active.
LEMMA StatusWritten ==
  ASSUME MemberTypes, NEW u \in Users, NEW new \in Standings,
         member' = [member EXCEPT ![u].status = new]
  PROVE  /\ member' \in [Users -> [status : Standings, role : {"MEMBER", "MODERATOR", "OWNER"}]]
         /\ Membership!Active \subseteq Users
         /\ Membership!Active' = IF new = "ACTIVE" THEN Membership!Active \cup {u}
                                 ELSE Membership!Active \ {u}
<1>1. member' \in [Users -> [status : Standings, role : {"MEMBER", "MODERATOR", "OWNER"}]]
  <2>1. member[u] \in [status : Standings, role : {"MEMBER", "MODERATOR", "OWNER"}]
    BY DEF MemberTypes
  <2>2. [member[u] EXCEPT !.status = new] = [status |-> new, role |-> member[u].role]
    BY <2>1
  <2>3. [status |-> new, role |-> member[u].role] \in [status : Standings, role : {"MEMBER", "MODERATOR", "OWNER"}]
    BY <2>1
  <2> QED BY <2>2, <2>3 DEF MemberTypes
<1>2. \A w \in Users : member'[w].status = IF w = u THEN new ELSE member[w].status
  BY DEF MemberTypes
<1> QED BY <1>1, <1>2 DEF Membership!Active

\* What one request remembers, and nothing else.
LEMMA OtherRemembers ==
  ASSUME MemberTypes, NEW o \in Others, NEW asked \in OtherRequest,
         other' = [other EXCEPT ![o] = asked]
  PROVE  /\ other'[o] = asked
         /\ \A p \in Others : p # o => other'[p] = other[p]
         /\ UNCHANGED <<member, memberCount, rowLocked, join>> => MemberTypes'
BY DEF MemberTypes

-----------------------------------------------------------------------------
LEMMA CommunityStepsKeep ==
  ASSUME MemberInv, Membership!ChangeSponsorship \/ Membership!Archive
  PROVE  MemberInv' /\ Membership!Follows
<1>1. UNCHANGED <<member, memberCount, rowLocked, join, other>>
  BY DEF Membership!ChangeSponsorship, Membership!Archive
<1>2. UNCHANGED archived \/ rowLocked = None
  BY DEF Membership!ChangeSponsorship, Membership!Archive
<1>3. UNCHANGED Membership!Active
  BY <1>1 DEF Membership!Active
<1>4. MemberInv'
  BY <1>1, <1>2, <1>3, MembershipAssumption DEF MemberInv, MemberTypes, JoinChecked, CapacityChecked
<1> QED BY <1>1, <1>3, <1>4, NoDrift

LEMMA JoinLockStep ==
  ASSUME MemberInv, NEW j \in Joins, NEW u \in Users, Membership!JoinLock(j, u)
  PROVE  MemberInv' /\ Membership!Follows
<1>1. /\ UNCHANGED <<member, memberCount, archived, other>>
      /\ rowLocked' = j /\ ~archived /\ u \notin Membership!Active
      /\ memberCount < Membership!Capacity
      /\ join' = [join EXCEPT ![j] = [user |-> u, capacity |-> Membership!Capacity]]
  BY DEF Membership!JoinLock, Membership!Active, Membership!HasRoom
<1>2. UNCHANGED Membership!Active
  BY <1>1 DEF Membership!Active
<1>3. MemberTypes' /\ join'[j] = [user |-> u, capacity |-> Membership!Capacity]
  BY <1>1, CapacityType DEF MemberInv, MemberTypes
<1>4. JoinChecked' /\ CapacityChecked'
  BY <1>1, <1>2, <1>3 DEF JoinChecked, CapacityChecked
<1> QED BY <1>1, <1>2, <1>3, <1>4, NoDrift DEF MemberInv

\* A new member, and one more on the counter.
LEMMA JoinCommitStep ==
  ASSUME MemberInv, NEW j \in Joins, Membership!JoinCommit(j)
  PROVE  MemberInv' /\ Membership!Follows
<1> DEFINE u == join[j].user
<1>1. /\ UNCHANGED <<archived, other>> /\ rowLocked = j /\ rowLocked' = None
      /\ memberCount' = memberCount + 1
      /\ join' = [join EXCEPT ![j] = Membership!IdleJoin]
      /\ member' = [member EXCEPT ![u].status = "ACTIVE"]
  BY DEF Membership!JoinCommit
<1>2. u \in Users /\ u \notin Membership!Active
  BY <1>1 DEF MemberInv, JoinChecked
<1> HIDE DEF u
<1>3. /\ member' \in [Users -> [status : Standings, role : {"MEMBER", "MODERATOR", "OWNER"}]]
      /\ Membership!Active \subseteq Users
      /\ Membership!Active' = Membership!Active \cup {u}
  BY <1>1, <1>2, StatusWritten DEF MemberInv, Standings
<1>4. MemberTypes'
  BY <1>1, <1>3 DEF MemberInv, MemberTypes, Membership!IdleJoin
<1>5. JoinChecked' /\ CapacityChecked'
  BY <1>1, MembershipAssumption DEF JoinChecked, CapacityChecked
<1>6. Cardinality(Membership!Active') = Cardinality(Membership!Active) + 1
  BY <1>2, <1>3, CountChanges
<1>7. Membership!Drift' = Membership!Drift /\ Membership!Drift \in Int
  BY <1>1, <1>6, DriftIs
<1> QED BY <1>4, <1>5, <1>7 DEF MemberInv, Membership!Follows

LEMMA JoinLostStep ==
  ASSUME MemberInv, NEW j \in Joins, Membership!JoinLost(j)
  PROVE  MemberInv' /\ Membership!Follows
<1>1. /\ UNCHANGED <<member, memberCount, archived, other>> /\ rowLocked' = None
      /\ join' = [join EXCEPT ![j] = Membership!IdleJoin]
  BY DEF Membership!JoinLost
<1>2. UNCHANGED Membership!Active
  BY <1>1 DEF Membership!Active
<1>3. MemberTypes'
  BY <1>1 DEF MemberInv, MemberTypes, Membership!IdleJoin
<1>4. JoinChecked' /\ CapacityChecked'
  BY <1>1, MembershipAssumption DEF JoinChecked, CapacityChecked
<1> QED BY <1>1, <1>2, <1>3, <1>4, NoDrift DEF MemberInv

\* The look-ups.
LEMMA ReadStep ==
  ASSUME MemberInv, NEW o \in Others, NEW u \in Users, NEW by,
         \/ Membership!LeaveRead(o, u) \/ Membership!RoleRead(o, by, u)
         \/ Membership!BanRead(o, by, u) \/ Membership!UnbanRead(o, by, u)
  PROVE  MemberInv' /\ Membership!Follows
<1>1. PICK kind \in {"leave", "ban", "unban", "role"} :
        /\ Membership!Reads(o, kind, u)
        /\ kind = "leave" => member[u].status = "ACTIVE"
        /\ kind = "unban" => member[u].status = "BANNED"
  BY DEF Membership!LeaveRead, Membership!RoleRead, Membership!BanRead, Membership!UnbanRead
<1>2. /\ UNCHANGED <<member, memberCount, archived, rowLocked, join>>
      /\ other' = [other EXCEPT ![o] = [kind |-> kind, user |-> u, read |-> member[u].status]]
  BY <1>1 DEF Membership!Reads
<1>3. member[u].status \in Standings
  BY DEF MemberInv, MemberTypes
<1>4. UNCHANGED Membership!Active
  BY <1>2 DEF Membership!Active
<1>5. MemberTypes'
  <2>1. [kind |-> kind, user |-> u, read |-> member[u].status] \in OtherRequest
    BY <1>1, <1>3 DEF OtherRequest
  <2> QED BY <1>2, <2>1, OtherRemembers DEF MemberInv
<1>6. JoinChecked' /\ CapacityChecked'
  BY <1>2, <1>4 DEF MemberInv, JoinChecked, CapacityChecked
<1> QED BY <1>2, <1>4, <1>5, <1>6, NoDrift DEF MemberInv

\* What a request writes to a member, who is not active after it.
LEMMA WritesStep ==
  ASSUME MemberInv, NEW o \in Others, other[o].kind # None, NEW new \in {"LEFT", "BANNED"},
         Membership!Writes(o, new), memberCount' \in Int,
         memberCount' = memberCount \/ rowLocked = None
  PROVE  /\ MemberInv'
         /\ Membership!Active \subseteq Users
         /\ Membership!Active' = Membership!Active \ {other[o].user}
         /\ Membership!Ends(o) /\ other[o].user \in Users
<1>1. /\ UNCHANGED <<archived, rowLocked, join>>
      /\ member' = [member EXCEPT ![other[o].user].status = new]
      /\ other' = [other EXCEPT ![o] = [kind |-> None, user |-> None, read |-> None]]
  BY DEF Membership!Writes, Membership!IdleOther
<1>2. other[o].user \in Users
  BY DEF MemberInv, MemberTypes, OtherRequest
<1>3. /\ member' \in [Users -> [status : Standings, role : {"MEMBER", "MODERATOR", "OWNER"}]]
      /\ Membership!Active \subseteq Users
      /\ Membership!Active' = Membership!Active \ {other[o].user}
  BY <1>1, <1>2, StatusWritten DEF MemberInv, Standings
<1>4. Membership!Ends(o) /\ other' \in [Others -> OtherRequest]
  <2>1. /\ [kind |-> None, user |-> None, read |-> None] \in OtherRequest
        /\ [kind |-> None, user |-> None, read |-> None].kind = None
    BY MembershipAssumption DEF OtherRequest
  <2> QED BY <1>1, <2>1 DEF MemberInv, MemberTypes, Membership!Ends, Membership!IdleOther
<1>5. MemberTypes'
  BY <1>1, <1>3, <1>4 DEF MemberInv, MemberTypes
<1>6. JoinChecked' /\ CapacityChecked'
  BY <1>1, <1>3, MembershipAssumption DEF MemberInv, JoinChecked, CapacityChecked
<1> QED BY <1>2, <1>3, <1>4, <1>5, <1>6 DEF MemberInv

\* A leave and a ban count the member that they read as active; what they take
\* away is the member that is.
LEMMA WriterStep ==
  ASSUME MemberInv, NEW o \in Others,
         \/ Membership!LeaveCommit(o) \/ Membership!BanCommit(o) \/ Membership!UnbanCommit(o)
  PROVE  MemberInv' /\ Membership!Active' \subseteq Membership!Active /\ Membership!Follows
<1> DEFINE counts == other[o].read = "ACTIVE"
           u == other[o].user
<1>1. /\ other[o].kind \in {"leave", "ban", "unban"}
      /\ \E new \in {"LEFT", "BANNED"} : Membership!Writes(o, new)
      /\ \/ counts /\ other[o].kind # "unban" /\ memberCount' = memberCount - 1 /\ rowLocked = None
         \/ ~counts /\ other[o].kind # "leave" /\ memberCount' = memberCount
  <2>1. other[o] \in OtherRequest
    BY DEF MemberInv, MemberTypes
  <2>2. /\ other[o].kind = "leave" => other[o].read = "ACTIVE"
        /\ other[o].kind = "unban" => other[o].read = "BANNED"
    BY <2>1 DEF OtherRequest
  <2>3. CASE Membership!LeaveCommit(o)
    BY <2>2, <2>3 DEF Membership!LeaveCommit
  <2>4. CASE Membership!BanCommit(o)
    BY <2>4 DEF Membership!BanCommit
  <2>5. CASE Membership!UnbanCommit(o)
    BY <2>2, <2>5 DEF Membership!UnbanCommit
  <2> QED BY <2>3, <2>4, <2>5
<1>2. other[o].kind # None /\ memberCount' \in Int
  BY <1>1, MembershipAssumption DEF MemberInv, MemberTypes
<1>3. /\ MemberInv'
      /\ Membership!Active' = Membership!Active \ {u}
      /\ Membership!Ends(o) /\ u \in Users
  BY <1>1, <1>2, WritesStep
<1>4. Membership!IsActive(o) <=> u \in Membership!Active
  BY <1>3 DEF Membership!IsActive, Membership!Active
<1> HIDE DEF counts, u
<1>5. /\ u \in Membership!Active =>
           Cardinality(Membership!Active') = Cardinality(Membership!Active) - 1
      /\ u \notin Membership!Active =>
           Cardinality(Membership!Active') = Cardinality(Membership!Active)
  <2>1. u \notin Membership!Active => Membership!Active' = Membership!Active
    BY <1>3
  <2> QED BY <1>3, <2>1, DriftIs, CountChanges
<1>6. /\ Membership!Drift' < Membership!Drift => counts /\ u \notin Membership!Active
      /\ Membership!Drift' > Membership!Drift => ~counts /\ u \in Membership!Active
  <2>1. CASE counts
    BY <1>1, <1>5, <2>1, DriftIs
  <2>2. CASE ~counts
    BY <1>1, <1>5, <2>2, DriftIs
  <2> QED BY <2>1, <2>2
<1>7. Membership!Follows
  BY <1>1, <1>3, <1>4, <1>6 DEF Membership!Follows, counts
<1> QED BY <1>3, <1>7

LEMMA RoleStep ==
  ASSUME MemberInv, NEW o \in Others,
         Membership!OtherLost(o) \/ \E role \in Membership!Roles : Membership!RoleCommit(o, role)
  PROVE  MemberInv' /\ UNCHANGED Membership!Active /\ Membership!Follows
<1>1. /\ UNCHANGED <<memberCount, archived, rowLocked, join>>
      /\ other' = [other EXCEPT ![o] = [kind |-> None, user |-> None, read |-> None]]
  BY DEF Membership!OtherLost, Membership!RoleCommit, Membership!IdleOther
<1>2. /\ member' \in [Users -> [status : Standings, role : {"MEMBER", "MODERATOR", "OWNER"}]]
      /\ \A u \in Users : member'[u].status = member[u].status
  <2>1. member \in [Users -> [status : Standings, role : {"MEMBER", "MODERATOR", "OWNER"}]]
    BY DEF MemberInv, MemberTypes
  <2>2. CASE Membership!OtherLost(o)
    BY <2>1, <2>2 DEF Membership!OtherLost
  <2>3. CASE \E role \in Membership!Roles : Membership!RoleCommit(o, role)
    <3>1. PICK role \in {"MEMBER", "MODERATOR", "OWNER"} :
            member' = [member EXCEPT ![other[o].user].role = role]
      BY <2>3 DEF Membership!RoleCommit, Membership!Roles
    <3> QED BY <2>1, <3>1
  <2> QED BY <2>2, <2>3
<1>3. UNCHANGED Membership!Active
  BY <1>2 DEF Membership!Active
<1>4. other' \in [Others -> OtherRequest]
  <2>1. [kind |-> None, user |-> None, read |-> None] \in OtherRequest
    BY MembershipAssumption DEF OtherRequest
  <2> QED BY <1>1, <2>1 DEF MemberInv, MemberTypes
<1>5. MemberInv'
  BY <1>1, <1>2, <1>3, <1>4 DEF MemberInv, MemberTypes, JoinChecked, CapacityChecked
<1> QED BY <1>1, <1>3, <1>5, NoDrift

LEMMA MembershipStep ==
  ASSUME MemberInv, [Membership!Next]_(Membership!vars)
  PROVE  MemberInv' /\ Membership!Follows
<1>1. CASE UNCHANGED Membership!vars
  <2>1. UNCHANGED <<member, memberCount, archived, rowLocked, join, other, Membership!Active>>
    BY <1>1 DEF Membership!vars, Membership!Active
  <2>2. MemberInv'
    BY <2>1 DEF MemberInv, MemberTypes, JoinChecked, CapacityChecked
  <2> QED BY <2>1, <2>2, NoDrift
<1>2. CASE Membership!ChangeSponsorship \/ Membership!Archive
  BY <1>2, CommunityStepsKeep
<1>3. ASSUME NEW j \in Joins, \/ Membership!JoinCommit(j) \/ Membership!JoinLost(j)
                              \/ \E u \in Users : Membership!JoinLock(j, u)
      PROVE  MemberInv' /\ Membership!Follows
  BY <1>3, JoinCommitStep, JoinLostStep, JoinLockStep
<1>4. ASSUME NEW o \in Others, NEW u \in Users,
             \/ Membership!LeaveRead(o, u)
             \/ \E by \in Users \cup {Admin} :
                  Membership!RoleRead(o, by, u) \/ Membership!BanRead(o, by, u) \/ Membership!UnbanRead(o, by, u)
      PROVE  MemberInv' /\ Membership!Follows
  BY <1>4, ReadStep
<1>5. ASSUME NEW o \in Others, \/ Membership!LeaveCommit(o) \/ Membership!BanCommit(o)
                               \/ Membership!UnbanCommit(o)
      PROVE  MemberInv' /\ Membership!Follows
  BY <1>5, WriterStep
<1>6. ASSUME NEW o \in Others,
             Membership!OtherLost(o) \/ \E role \in Membership!Roles : Membership!RoleCommit(o, role)
      PROVE  MemberInv' /\ Membership!Follows
  BY <1>6, RoleStep
<1> QED BY <1>1, <1>2, <1>3, <1>4, <1>5, <1>6 DEF Membership!Next

LEMMA MemberInvariance == Membership!Spec => []MemberInv
  BY MemberInit, MembershipStep, PTL DEF Membership!Spec

\* Who becomes active does so by the commit of the join that holds the row.
LEMMA ActivatesByJoin ==
  ASSUME MemberInv, [Membership!Next]_(Membership!vars)
  PROVE  \/ Membership!Active' \subseteq Membership!Active
         \/ \E j \in Joins : /\ rowLocked = j /\ join[j].user \in Users /\ archived = FALSE
                             /\ Membership!Active' = Membership!Active \cup {join[j].user}
<1>1. CASE UNCHANGED member
  BY <1>1 DEF Membership!Active
<1>2. ASSUME NEW j \in Joins, Membership!JoinCommit(j)
      PROVE  /\ rowLocked = j /\ join[j].user \in Users /\ archived = FALSE
             /\ Membership!Active' = Membership!Active \cup {join[j].user}
  <2>1. rowLocked = j /\ join[j].user \in Users /\ archived = FALSE
    BY <1>2 DEF Membership!JoinCommit, MemberInv, JoinChecked
  <2> QED BY <1>2, <2>1, StatusWritten DEF Membership!JoinCommit, MemberInv, Standings
<1>3. ASSUME NEW o \in Others, \/ Membership!LeaveCommit(o) \/ Membership!BanCommit(o)
                               \/ Membership!UnbanCommit(o)
                               \/ \E role \in Membership!Roles : Membership!RoleCommit(o, role)
      PROVE  Membership!Active' \subseteq Membership!Active
  BY <1>3, WriterStep, RoleStep
<1>4. \/ UNCHANGED member \/ \E j \in Joins : Membership!JoinCommit(j)
      \/ \E o \in Others : \/ Membership!LeaveCommit(o) \/ Membership!BanCommit(o)
                           \/ Membership!UnbanCommit(o)
                           \/ \E role \in Membership!Roles : Membership!RoleCommit(o, role)
  BY DEF Membership!Next, Membership!vars, Membership!ChangeSponsorship, Membership!Archive,
      Membership!JoinLost, Membership!JoinLock, Membership!LeaveRead, Membership!RoleRead,
      Membership!BanRead, Membership!UnbanRead, Membership!Reads, Membership!OtherLost
<1> QED BY <1>1, <1>2, <1>3, <1>4

\* The archiving of a community and a join wait for the same row: whoever comes
\* second sees what the first one did (communities.service.ts, join and delete).
THEOREM ArchivedStaysClosed == Membership!Spec => NoJoinAfterArchive
<1>1. MemberInv /\ [Membership!Next]_(Membership!vars) =>
        [archived => Membership!Active' \subseteq Membership!Active]_(Membership!vars)
  BY ActivatesByJoin
<1> QED BY <1>1, MemberInvariance, PTL DEF Membership!Spec, NoJoinAfterArchive, Membership!NoJoinAfterArchive

\* The counter that the capacity check trusts moves away from the active
\* members only where a leave, a ban or an unban writes a member that is no
\* longer as it was read (community-members.service.ts).
THEOREM CounterFollows == Membership!Spec => CountFollowsMembers
<1>1. MemberInv /\ [Membership!Next]_(Membership!vars) => [Membership!Follows]_(Membership!vars)
  BY MembershipStep
<1> QED BY <1>1, MemberInvariance, PTL
        DEF Membership!Spec, CountFollowsMembers, Membership!CountFollowsMembers

\* While it covers them, no join takes the community over the capacity it was
\* checked against, whatever else is under way.
THEOREM JoinsWithinCapacity == Membership!Spec => NoOversubscription
<1>1. ASSUME MemberInv, [Membership!Next]_(Membership!vars), NEW j \in Joins, rowLocked = j,
             Membership!Drift >= 0
      PROVE  Cardinality(Membership!Active') <= join[j].capacity
  <2>1. /\ Membership!Active \in SUBSET Users /\ Cardinality(Membership!Active) \in Nat
        /\ Cardinality(Membership!Active) <= memberCount /\ memberCount < join[j].capacity
        /\ memberCount \in Int /\ join[j].capacity \in Nat
    BY <1>1, DriftIs DEF MemberInv, MemberTypes, CapacityChecked
  <2>2. /\ Cardinality(Membership!Active') \in Nat
        /\ Cardinality(Membership!Active') <= Cardinality(Membership!Active) + 1
    <3>1. CASE Membership!Active' \subseteq Membership!Active
      <4>1. /\ Cardinality(Membership!Active') \in Nat
            /\ Cardinality(Membership!Active') <= Cardinality(Membership!Active)
        BY <2>1, <3>1, ActiveCounted
      <4> QED BY <2>1, <4>1
    <3>2. ASSUME NEW u, Membership!Active' = Membership!Active \cup {u}
          PROVE  /\ Cardinality(Membership!Active') \in Nat
                 /\ Cardinality(Membership!Active') <= Cardinality(Membership!Active) + 1
      BY <2>1, <3>2, ActiveCounted
    <3> QED BY <1>1, <3>1, <3>2, ActivatesByJoin
  <2> QED BY <2>1, <2>2
<1>2. MemberInv /\ [Membership!Next]_(Membership!vars) =>
        [\A j \in Joins : rowLocked = j /\ Membership!Active' # Membership!Active
                          /\ Membership!Drift >= 0 =>
           Membership!Cardinality(Membership!Active') <= join[j].capacity]_(Membership!vars)
  BY <1>1, SameCardinality
<1> QED BY <1>2, MemberInvariance, PTL DEF Membership!Spec, NoOversubscription, Membership!NoOversubscription

-----------------------------------------------------------------------------
(* The chat.  A standing changes at any time, but never back to none: what *)
(* the look-ups found, that a user is a member, stays true as having been  *)
(* one.                                                                    *)

ChatTypes ==
  /\ standing \in [Talkers -> {"none", "ACTIVE", "gone"}]
  /\ socket \in [Talkers -> {"out", "admitted", "in"}]
  /\ history \in Seq(SUBSET Talkers)
  /\ heard \in [Talkers -> SUBSET Nat]
  /\ sending \in [Sends -> [pc : {"idle", "checked", "saved"}, user : SUBSET Talkers, message : Nat]]

WasMember(u) == standing[u] # "none"

\* Who is let into the room, and who passed the check of a message.
SeatsOfMembers == \A u \in Talkers : socket[u] # "out" => WasMember(u)
SendersAreMembers ==
  \A s \in Sends : sending[s].pc = "checked" => \A u \in sending[s].user : WasMember(u)

SavedIsInHistory ==
  \A s \in Sends : sending[s].pc = "saved" => sending[s].message \in DOMAIN history

ChatInv ==
  ChatTypes /\ SeatsOfMembers /\ SendersAreMembers /\ SavedIsInHistory /\ ChatStaysInside

-----------------------------------------------------------------------------
LEMMA ChatInitInv == Chat!ChatInit => ChatInv
<1> SUFFICES ASSUME Chat!ChatInit PROVE ChatInv
  OBVIOUS
<1>1. ChatTypes
  BY DEF Chat!ChatInit, Chat!Silent, ChatTypes
<1>2. SeatsOfMembers /\ SendersAreMembers /\ SavedIsInHistory
  BY DEF Chat!ChatInit, Chat!Silent, SeatsOfMembers, SendersAreMembers, SavedIsInHistory
<1>3. ChatStaysInside
  BY DEF Chat!ChatInit, ChatStaysInside, Chat!ChatStaysInside
<1> QED BY <1>1, <1>2, <1>3 DEF ChatInv

\* A user joins, leaves, is banned, or moves in or out of the room.
LEMMA SocketStep ==
  ASSUME ChatInv, NEW u \in Talkers,
         \/ Chat!ChangeStanding(u) \/ Chat!AdmitToRoom(u) \/ Chat!EnterRoom(u) \/ Chat!LeaveRoom(u)
  PROVE  ChatInv'
<1>1. UNCHANGED <<history, heard, sending>>
  BY DEF Chat!ChangeStanding, Chat!AdmitToRoom, Chat!EnterRoom, Chat!LeaveRoom
<1>2. ChatTypes'
  BY <1>1 DEF ChatInv, ChatTypes, Chat!ChangeStanding, Chat!AdmitToRoom, Chat!EnterRoom, Chat!LeaveRoom
<1>3. \A w \in Talkers : standing[w] # "none" => standing'[w] # "none"
  BY DEF ChatInv, ChatTypes, Chat!ChangeStanding, Chat!AdmitToRoom, Chat!EnterRoom, Chat!LeaveRoom,
      Chat!ActiveMember
<1>4. SeatsOfMembers'
  BY <1>3 DEF ChatInv, ChatTypes, SeatsOfMembers, WasMember, Chat!ChangeStanding, Chat!AdmitToRoom,
      Chat!EnterRoom, Chat!LeaveRoom, Chat!ActiveMember
<1>5. SendersAreMembers' /\ SavedIsInHistory'
  BY <1>1, <1>3 DEF ChatInv, ChatTypes, SendersAreMembers, WasMember, SavedIsInHistory
<1>6. ChatStaysInside'
  BY <1>1, <1>3 DEF ChatInv, ChatStaysInside, Chat!ChatStaysInside
<1> QED BY <1>2, <1>4, <1>5, <1>6 DEF ChatInv

\* A message that is only checked, or given up.
LEMMA SendingStep ==
  ASSUME ChatInv, NEW s \in Sends,
         Chat!SendFails(s) \/ \E u \in Talkers : Chat!CheckSender(s, u)
  PROVE  ChatInv'
<1>1. UNCHANGED <<standing, socket, history, heard>>
  BY DEF Chat!SendFails, Chat!CheckSender
<1>2. PICK asked \in [pc : {"idle", "checked", "saved"}, user : SUBSET Talkers, message : Nat] :
        /\ sending' = [sending EXCEPT ![s] = asked] /\ asked.pc # "saved"
        /\ asked.pc = "checked" => \A u \in asked.user : WasMember(u)
  <2>1. CASE Chat!SendFails(s)
    <3>1. Chat!Silent \in [pc : {"idle", "checked", "saved"}, user : SUBSET Talkers, message : Nat]
          /\ Chat!Silent.pc = "idle"
      BY DEF Chat!Silent
    <3> QED BY <2>1, <3>1 DEF Chat!SendFails
  <2>2. ASSUME NEW u \in Talkers, Chat!CheckSender(s, u)
        PROVE \E asked \in [pc : {"idle", "checked", "saved"}, user : SUBSET Talkers, message : Nat] :
                /\ sending' = [sending EXCEPT ![s] = asked] /\ asked.pc # "saved"
                /\ asked.pc = "checked" => \A w \in asked.user : WasMember(w)
    <3>1. [pc |-> "checked", user |-> {u}, message |-> 0]
            \in [pc : {"idle", "checked", "saved"}, user : SUBSET Talkers, message : Nat]
      OBVIOUS
    <3>2. sending' = [sending EXCEPT ![s] = [pc |-> "checked", user |-> {u}, message |-> 0]]
          /\ WasMember(u)
      BY <2>2 DEF Chat!CheckSender, Chat!ActiveMember, WasMember
    <3> QED BY <3>1, <3>2
  <2> QED BY <2>1, <2>2
<1>3. sending'[s] = asked /\ \A r \in Sends : r # s => sending'[r] = sending[r]
  BY <1>2 DEF ChatInv, ChatTypes
<1>4. ChatTypes'
  BY <1>1, <1>2 DEF ChatInv, ChatTypes
<1>5. SeatsOfMembers' /\ SendersAreMembers' /\ SavedIsInHistory'
  BY <1>1, <1>2, <1>3 DEF ChatInv, SeatsOfMembers, SendersAreMembers, SavedIsInHistory, WasMember
<1>6. ChatStaysInside'
  BY <1>1 DEF ChatInv, ChatStaysInside, Chat!ChatStaysInside
<1> QED BY <1>4, <1>5, <1>6 DEF ChatInv

LEMMA SaveStep ==
  ASSUME ChatInv, NEW s \in Sends, Chat!SaveMessage(s)
  PROVE  ChatInv'
<1> DEFINE said == [pc |-> "saved", user |-> sending[s].user, message |-> Len(history) + 1]
<1>1. UNCHANGED <<standing, socket, heard>> /\ sending[s].pc = "checked"
      /\ history' = Append(history, sending[s].user)
  BY DEF Chat!SaveMessage
<1>2. /\ sending[s].user \in SUBSET Talkers /\ history \in Seq(SUBSET Talkers) /\ Len(history) \in Nat
      /\ \A u \in sending[s].user : WasMember(u)
  BY <1>1 DEF ChatInv, ChatTypes, SendersAreMembers
<1>3. /\ history' \in Seq(SUBSET Talkers) /\ Len(history') = Len(history) + 1
      /\ DOMAIN history' = 1..(Len(history) + 1)
      /\ \A m \in DOMAIN history' : history'[m] = IF m = Len(history) + 1 THEN sending[s].user
                                                  ELSE history[m]
      /\ DOMAIN history = 1..Len(history)
  BY <1>1, <1>2
<1>4. sending' = [sending EXCEPT ![s] = said]
  <2> DEFINE once == [pc |-> "saved", user |-> sending[s].user, message |-> sending[s].message]
             first == [sending EXCEPT ![s] = once]
  <2>1. sending[s] \in [pc : {"idle", "checked", "saved"}, user : SUBSET Talkers, message : Nat]
        /\ DOMAIN sending = Sends
    BY DEF ChatInv, ChatTypes
  <2>2. [sending[s] EXCEPT !.pc = "saved"] = once /\ [once EXCEPT !.message = Len(history) + 1] = said
    BY <2>1
  <2>3. [sending EXCEPT ![s].pc = "saved"] = first
    BY <2>2
  <2>4. first[s] = once
    BY <2>1
  <2>5. [first EXCEPT ![s].message = Len(history) + 1] = [first EXCEPT ![s] = said]
    BY <2>2, <2>4
  <2>6. [first EXCEPT ![s] = said] = [sending EXCEPT ![s] = said]
    BY <2>1
  <2>7. sending' = [[sending EXCEPT ![s].pc = "saved"] EXCEPT ![s].message = Len(history) + 1]
    BY DEF Chat!SaveMessage
  <2> HIDE DEF first, once, said
  <2> QED BY <2>3, <2>5, <2>6, <2>7
<1>5. said \in [pc : {"idle", "checked", "saved"}, user : SUBSET Talkers, message : Nat]
      /\ said.pc = "saved" /\ said.message = Len(history) + 1
  BY <1>2
<1> HIDE DEF said
<1>6. sending'[s] = said /\ \A r \in Sends : r # s => sending'[r] = sending[r]
  BY <1>4 DEF ChatInv, ChatTypes
<1>7. ChatTypes'
  BY <1>1, <1>3, <1>4, <1>5 DEF ChatInv, ChatTypes
<1>8. SeatsOfMembers' /\ SendersAreMembers'
  BY <1>1, <1>5, <1>6 DEF ChatInv, SeatsOfMembers, SendersAreMembers, WasMember
<1>9. SavedIsInHistory'
  BY <1>2, <1>3, <1>5, <1>6 DEF ChatInv, SavedIsInHistory
<1>10. ChatStaysInside'
  <2>1. \A u \in Talkers : standing[u] = "none" => \A m \in DOMAIN history' : u \notin history'[m]
    BY <1>2, <1>3 DEF ChatInv, ChatStaysInside, Chat!ChatStaysInside, WasMember
  <2>2. DOMAIN history \subseteq DOMAIN history'
    BY <1>2, <1>3
  <2> QED BY <1>1, <2>1, <2>2 DEF ChatInv, ChatStaysInside, Chat!ChatStaysInside
<1> QED BY <1>7, <1>8, <1>9, <1>10 DEF ChatInv

\* A message reaches the sockets in the room, which are members' seats.
LEMMA EmitStep ==
  ASSUME ChatInv, NEW s \in Sends, Chat!Emit(s)
  PROVE  ChatInv'
<1>1. UNCHANGED <<standing, socket, history>> /\ sending[s].pc = "saved"
      /\ sending' = [sending EXCEPT ![s] = Chat!Silent]
  BY DEF Chat!Emit
<1>2. heard' = [u \in Talkers |-> heard[u] \cup {m \in {sending[s].message} : socket[u] = "in"}]
  BY DEF Chat!Emit
<1>3. sending[s].message \in DOMAIN history /\ sending[s].message \in Nat
  BY <1>1 DEF ChatInv, ChatTypes, SavedIsInHistory
<1>4. Chat!Silent \in [pc : {"idle", "checked", "saved"}, user : SUBSET Talkers, message : Nat]
      /\ Chat!Silent.pc = "idle"
  BY DEF Chat!Silent
<1>5. sending'[s] = Chat!Silent /\ \A r \in Sends : r # s => sending'[r] = sending[r]
  BY <1>1 DEF ChatInv, ChatTypes
<1>6. ChatTypes'
  BY <1>1, <1>2, <1>3, <1>4 DEF ChatInv, ChatTypes
<1>7. SeatsOfMembers' /\ SendersAreMembers' /\ SavedIsInHistory'
  BY <1>1, <1>4, <1>5 DEF ChatInv, SeatsOfMembers, SendersAreMembers, SavedIsInHistory, WasMember
<1>8. ChatStaysInside'
  <2>1. \A u \in Talkers : standing[u] = "none" => heard'[u] = heard[u]
    BY <1>2 DEF ChatInv, ChatTypes, SeatsOfMembers, WasMember
  <2>2. \A u \in Talkers : heard'[u] \subseteq DOMAIN history
    BY <1>2, <1>3 DEF ChatInv, ChatStaysInside, Chat!ChatStaysInside
  <2> QED BY <1>1, <2>1, <2>2 DEF ChatInv, ChatStaysInside, Chat!ChatStaysInside
<1> QED BY <1>6, <1>7, <1>8 DEF ChatInv

LEMMA ChatInvariance == Chat!ChatSpec => []ChatInv
<1>1. ASSUME ChatInv, [Chat!ChatNext]_(Chat!chatVars) PROVE ChatInv'
  <2>1. CASE UNCHANGED Chat!chatVars
    BY <1>1, <2>1 DEF Chat!chatVars, ChatInv, ChatTypes, SeatsOfMembers, SendersAreMembers,
        SavedIsInHistory, WasMember, ChatStaysInside, Chat!ChatStaysInside
  <2> QED BY <1>1, <2>1, SocketStep, SendingStep, SaveStep, EmitStep DEF Chat!ChatNext
<1> QED BY ChatInitInv, <1>1, PTL DEF Chat!ChatSpec

\* However members come and go between the look-ups of the gateway and what
\* they allow, nobody who was never a member hears or says anything, and what
\* is heard was saved first (community-chat.gateway.ts, community-chat.service.ts).
THEOREM ChatIsOfMembers == Chat!ChatSpec => []ChatStaysInside
<1>1. ChatInv => ChatStaysInside
  BY DEF ChatInv
<1> QED BY <1>1, ChatInvariance, PTL

-----------------------------------------------------------------------------
(* The reports.  A request that found no report under way may make one,    *)
(* and one that puts a report in review may open a closed one again: each  *)
(* request accounts for at most one report under way beyond those that are.*)

ReportStatus == {"none", "OPEN", "IN_REVIEW"} \cup Reports!Closed

Decisions == {"none", "IN_REVIEW"} \cup Reports!Closed

ReportTypes ==
  /\ report \in [1..MaxReports -> ReportStatus]
  /\ reporting \in [Reporting -> [pc : {"idle", "create", "resolve"}, report : Nat,
                                  status : Decisions]]
  /\ \A c \in Reporting : reporting[c].pc = "resolve" => reporting[c].report \in 1..MaxReports

Creating == {c \in Reporting : reporting[c].pc = "create"}
Reviewing == {c \in Reporting : reporting[c].pc = "resolve" /\ reporting[c].status = "IN_REVIEW"}

\* The reports that are under way, or will be when a resolution writes.
Pending == Reports!Underway \cup {reporting[c].report : c \in Reviewing}

ReportInv ==
  ReportTypes /\ Cardinality(Pending) + Cardinality(Creating) <= Cardinality(Reporting)

-----------------------------------------------------------------------------
\* So does the instance of the reports.
LEMMA SameCount == \A S : Reports!Cardinality(S) = Cardinality(S)
BY DEF Reports!Cardinality, Cardinality

LEMMA PendingFinite ==
  ASSUME ReportTypes
  PROVE  /\ IsFiniteSet(Pending) /\ Cardinality(Pending) \in Nat
         /\ IsFiniteSet(Creating) /\ Cardinality(Creating) \in Nat
         /\ Cardinality(Reporting) \in Nat
         /\ Reports!Underway \subseteq 1..MaxReports /\ Pending \subseteq 1..MaxReports
<1>1. Pending \subseteq 1..MaxReports /\ Reports!Underway \subseteq 1..MaxReports
  BY DEF Pending, Reviewing, Reports!Underway, ReportTypes
<1>2. IsFiniteSet(1..MaxReports)
  BY ReportsAssumption, FS_Interval
<1>3. IsFiniteSet(Pending)
  BY <1>1, <1>2, FS_Subset
<1>4. IsFiniteSet(Creating)
  BY ReportsAssumption, FS_Subset DEF Creating
<1> QED BY <1>1, <1>3, <1>4, ReportsAssumption, FS_CardinalityType

\* Fewer pending reports and fewer creations keep the bound.
LEMMA FewerKeep ==
  ASSUME ReportInv, ReportTypes', Pending' \subseteq Pending, Creating' \subseteq Creating
  PROVE  ReportInv'
<1>1. /\ Cardinality(Pending') <= Cardinality(Pending) /\ Cardinality(Pending') \in Nat
      /\ Cardinality(Creating') <= Cardinality(Creating) /\ Cardinality(Creating') \in Nat
  BY PendingFinite, FS_Subset, FS_CardinalityType DEF ReportInv
<1> QED BY <1>1, PendingFinite DEF ReportInv

LEMMA ReportInitInv == Reports!ReportInit => ReportInv
<1> SUFFICES ASSUME Reports!ReportInit PROVE ReportInv
  OBVIOUS
<1>1. ReportTypes
  BY DEF Reports!ReportInit, Reports!NoReporting, Reports!Closed, ReportTypes, ReportStatus, Decisions
<1>2. Pending = {} /\ Creating = {}
  BY DEF Reports!ReportInit, Reports!NoReporting, Reports!Underway, Pending, Creating, Reviewing
<1> QED BY <1>1, <1>2, PendingFinite, FS_EmptySet DEF ReportInv

\* One request, and what it will do next.
LEMMA OneRequest ==
  ASSUME ReportTypes, NEW c \in Reporting,
         NEW asked \in [pc : {"idle", "create", "resolve"}, report : Nat, status : Decisions],
         asked.pc = "resolve" => asked.report \in 1..MaxReports,
         reporting' = [reporting EXCEPT ![c] = asked],
         report' \in [1..MaxReports -> ReportStatus]
  PROVE  /\ ReportTypes'
         /\ reporting'[c] = asked
         /\ \A d \in Reporting : d # c => reporting'[d] = reporting[d]
<1>1. /\ reporting'[c] = asked
      /\ \A d \in Reporting : d # c => reporting'[d] = reporting[d]
  BY DEF ReportTypes
<1> QED BY <1>1 DEF ReportTypes

\* Of the requests that put a report in review each is about one report, and
\* the one that finds none under way is not one of them.
LEMMA ReadReportsKeeps ==
  ASSUME ReportInv, NEW c \in Reporting, Reports!ReadReports(c)
  PROVE  ReportInv'
<1> DEFINE asked == [reporting[c] EXCEPT !.pc = "create"]
           f == [d \in Reviewing |-> reporting[d].report]
<1>1. /\ UNCHANGED report /\ reporting[c].pc = "idle" /\ Reports!Underway = {}
      /\ reporting' = [reporting EXCEPT ![c].pc = "create"]
  BY DEF Reports!ReadReports
<1>2. /\ reporting' = [reporting EXCEPT ![c] = asked] /\ asked.pc = "create"
      /\ asked \in [pc : {"idle", "create", "resolve"}, report : Nat, status : Decisions]
  BY <1>1 DEF ReportInv, ReportTypes
<1> HIDE DEF asked
<1>3. /\ ReportTypes' /\ reporting'[c] = asked
      /\ \A d \in Reporting : d # c => reporting'[d] = reporting[d]
  BY <1>1, <1>2, OneRequest DEF ReportInv, ReportTypes
<1>4. Creating' = Creating \cup {c} /\ Reviewing' = Reviewing /\ c \notin Reviewing
      /\ Reports!Underway' = {}
  BY <1>1, <1>2, <1>3 DEF Creating, Reviewing, Reports!Underway
<1>5. Pending' = {reporting[d].report : d \in Reviewing} /\ Pending' = Pending
  BY <1>1, <1>3, <1>4 DEF Pending, Reviewing
<1>6. IsFiniteSet(Reviewing) /\ Cardinality(Reviewing) \in Nat
  BY ReportsAssumption, FS_Subset, FS_CardinalityType DEF Reviewing
<1>7. Cardinality(Pending') <= Cardinality(Reviewing)
  <2>1. f \in Surjection(Reviewing, Pending')
    BY <1>5 DEF Surjection
  <2> QED BY <1>6, <2>1, FS_Surjection
<1>8. Cardinality(Creating') + Cardinality(Reviewing) <= Cardinality(Reporting)
  <2>1. IsFiniteSet(Creating') /\ Cardinality(Creating') \in Nat
    BY <1>3, ReportsAssumption, FS_Subset, FS_CardinalityType DEF Creating
  <2>2. Creating' \cap Reviewing = {} /\ (Creating' \cup Reviewing) \in SUBSET Reporting
    BY <1>4 DEF Creating, Reviewing
  <2>3. Cardinality(Creating' \cup Reviewing) <= Cardinality(Reporting)
    BY <2>2, ReportsAssumption, FS_Subset
  <2>4. Cardinality(Creating' \cup Reviewing) = Cardinality(Creating') + Cardinality(Reviewing)
    <3>1. IsFiniteSet(Reviewing) /\ Cardinality({}) = 0
      BY <1>6, FS_EmptySet
    <3>2. Cardinality(Creating' \cup Reviewing) =
            Cardinality(Creating') + Cardinality(Reviewing) - Cardinality(Creating' \cap Reviewing)
      BY <2>1, <3>1, FS_Union
    <3>3. Cardinality(Creating' \cap Reviewing) = 0
      BY <2>2, <3>1
    <3> QED BY <1>6, <2>1, <3>2, <3>3
  <2> QED BY <2>3, <2>4
<1>9. Cardinality(Pending') \in Nat /\ Cardinality(Creating') \in Nat /\ Cardinality(Reporting) \in Nat
  BY <1>3, <1>5, PendingFinite, ReportsAssumption, FS_Subset, FS_CardinalityType DEF ReportInv, Creating
<1>10. Cardinality(Pending') + Cardinality(Creating') <= Cardinality(Reporting)
  BY <1>6, <1>7, <1>8, <1>9
<1> QED BY <1>3, <1>10 DEF ReportInv

\* The report that is made takes the place of its request.
LEMMA CreateReportKeeps ==
  ASSUME ReportInv, NEW c \in Reporting, Reports!CreateReport(c)
  PROVE  ReportInv'
<1>1. PICK i \in DOMAIN report : report' = [report EXCEPT ![i] = "OPEN"]
  BY DEF Reports!CreateReport
<1>2. reporting[c].pc = "create" /\ reporting' = [reporting EXCEPT ![c] = Reports!NoReporting]
  BY DEF Reports!CreateReport
<1>3. i \in 1..MaxReports /\ report' \in [1..MaxReports -> ReportStatus]
      /\ \A j \in 1..MaxReports : report'[j] = IF j = i THEN "OPEN" ELSE report[j]
  BY <1>1 DEF ReportInv, ReportTypes, ReportStatus, Decisions
<1>4. Reports!NoReporting \in [pc : {"idle", "create", "resolve"}, report : Nat, status : Decisions]
      /\ Reports!NoReporting.pc = "idle"
  BY DEF Reports!NoReporting, Decisions
<1>5. /\ ReportTypes' /\ reporting'[c] = Reports!NoReporting
      /\ \A d \in Reporting : d # c => reporting'[d] = reporting[d]
  BY <1>2, <1>3, <1>4, OneRequest DEF ReportInv
<1>6. Creating' = Creating \ {c} /\ c \in Creating /\ Reviewing' = Reviewing /\ c \notin Reviewing
  BY <1>2, <1>4, <1>5 DEF Creating, Reviewing
<1>7. Reports!Underway' = Reports!Underway \cup {i}
  BY <1>3 DEF ReportInv, ReportTypes, Reports!Underway
<1>8. Pending' = Pending \cup {i}
  BY <1>5, <1>6, <1>7 DEF Pending, Reviewing
<1>9. Cardinality(Creating') = Cardinality(Creating) - 1
  BY <1>6, PendingFinite, FS_RemoveElement DEF ReportInv
<1>10. Cardinality(Pending') <= Cardinality(Pending) + 1 /\ Cardinality(Pending') \in Nat
  <2>1. IsFiniteSet(Pending) /\ Cardinality(Pending) \in Nat
    BY PendingFinite DEF ReportInv
  <2>2. IsFiniteSet(Pending') /\ Cardinality(Pending') <= Cardinality(Pending) + 1
    <3>1. /\ IsFiniteSet(Pending \cup {i})
          /\ Cardinality(Pending \cup {i}) = IF i \in Pending THEN Cardinality(Pending)
                                            ELSE Cardinality(Pending) + 1
      BY <2>1, FS_AddElement, Zenon
    <3>2. Cardinality(Pending \cup {i}) <= Cardinality(Pending) + 1
      BY <2>1, <3>1
    <3> QED BY <1>8, <3>1, <3>2
  <2> QED BY <2>2, FS_CardinalityType
<1>11. Cardinality(Pending') + Cardinality(Creating') <= Cardinality(Reporting)
  BY <1>9, <1>10, PendingFinite DEF ReportInv
<1> QED BY <1>5, <1>11 DEF ReportInv

LEMMA ReadForResolutionKeeps ==
  ASSUME ReportInv, NEW c \in Reporting, NEW i \in DOMAIN report,
         NEW new \in {"IN_REVIEW"} \cup Reports!Closed, Reports!ReadForResolution(c, i, new)
  PROVE  ReportInv'
<1> DEFINE asked == [pc |-> "resolve", report |-> i, status |-> new]
<1>1. /\ UNCHANGED report /\ reporting[c].pc = "idle" /\ report[i] \notin Reports!Closed \cup {"none"}
      /\ reporting' = [reporting EXCEPT ![c] = asked]
  BY DEF Reports!ReadForResolution
<1>2. /\ i \in 1..MaxReports /\ i \in Reports!Underway
      /\ asked \in [pc : {"idle", "create", "resolve"}, report : Nat, status : Decisions]
      /\ asked.pc = "resolve" /\ asked.report = i
  BY <1>1 DEF ReportInv, ReportTypes, ReportStatus, Decisions, Reports!Underway
<1> HIDE DEF asked
<1>3. /\ ReportTypes' /\ reporting'[c] = asked
      /\ \A d \in Reporting : d # c => reporting'[d] = reporting[d]
  BY <1>1, <1>2, OneRequest DEF ReportInv, ReportTypes
<1>4. Creating' = Creating
  BY <1>1, <1>2, <1>3 DEF Creating
<1>5. Pending' \subseteq Pending
  <2>1. Reports!Underway' = Reports!Underway
    BY <1>1 DEF Reports!Underway
  <2>2. ASSUME NEW d \in Reviewing' PROVE reporting'[d].report \in Pending
    BY <1>2, <1>3 DEF Reviewing, Pending
  <2> QED BY <2>1, <2>2 DEF Pending
<1> QED BY <1>3, <1>4, <1>5, FewerKeep

\* A resolution writes to a report that was pending, or closes one.
LEMMA ResolveKeeps ==
  ASSUME ReportInv, NEW c \in Reporting, Reports!ResolveReport(c) \/ Reports!ReportFails(c)
  PROVE  ReportInv'
<1> DEFINE i == reporting[c].report
           new == reporting[c].status
<1>1. reporting' = [reporting EXCEPT ![c] = Reports!NoReporting]
  BY DEF Reports!ResolveReport, Reports!ReportFails
<1>2. \/ UNCHANGED report
      \/ reporting[c].pc = "resolve" /\ report' = [report EXCEPT ![i] = new]
  BY DEF Reports!ResolveReport, Reports!ReportFails
<1>3. Reports!NoReporting \in [pc : {"idle", "create", "resolve"}, report : Nat, status : Decisions]
      /\ Reports!NoReporting.pc = "idle"
  BY DEF Reports!NoReporting, Decisions
<1>4. report' \in [1..MaxReports -> ReportStatus]
      /\ \A j \in 1..MaxReports : report'[j] = report[j] \/ (reporting[c].pc = "resolve" /\ j = i /\ report'[j] = new)
  BY <1>2 DEF ReportInv, ReportTypes, ReportStatus, Decisions
<1>5. /\ ReportTypes' /\ reporting'[c] = Reports!NoReporting
      /\ \A d \in Reporting : d # c => reporting'[d] = reporting[d]
  BY <1>1, <1>3, <1>4, OneRequest DEF ReportInv
<1>6. Creating' \subseteq Creating /\ Reviewing' \subseteq Reviewing \ {c}
  BY <1>3, <1>5 DEF Creating, Reviewing
<1>7. Pending' \subseteq Pending
  <2>1. ASSUME NEW j \in Reports!Underway' PROVE j \in Pending
    <3>1. j \in 1..MaxReports /\ report'[j] \in {"OPEN", "IN_REVIEW"}
      BY <1>4 DEF Reports!Underway
    <3>2. CASE report'[j] = report[j]
      BY <3>1, <3>2 DEF Pending, Reports!Underway, ReportInv, ReportTypes
    <3>3. CASE reporting[c].pc = "resolve" /\ j = i /\ report'[j] = new /\ new = "IN_REVIEW"
      BY <3>3 DEF Pending, Reviewing
    <3>4. new # "OPEN"
      BY DEF ReportInv, ReportTypes, Decisions, Reports!Closed
    <3> QED BY <1>4, <3>1, <3>2, <3>3, <3>4
  <2>2. ASSUME NEW d \in Reviewing' PROVE reporting'[d].report \in Pending
    BY <1>5, <1>6 DEF Pending, Reviewing
  <2> QED BY <2>1, <2>2 DEF Pending
<1> QED BY <1>5, <1>6, <1>7, FewerKeep

LEMMA ReportInvariance == Reports!ReportSpec => []ReportInv
<1>1. ASSUME ReportInv, [Reports!ReportNext]_(Reports!reportVars) PROVE ReportInv'
  <2>1. CASE UNCHANGED Reports!reportVars
    BY <1>1, <2>1 DEF Reports!reportVars, ReportInv, ReportTypes, Pending, Creating, Reviewing,
        Reports!Underway
  <2> QED BY <1>1, <2>1, ReadReportsKeeps, CreateReportKeeps, ReadForResolutionKeeps, ResolveKeeps
          DEF Reports!ReportNext
<1> QED BY ReportInitInv, <1>1, PTL DEF Reports!ReportSpec

\* Duplicates of a report come from overlapping requests alone: there are never
\* more under way than requests (content-reports.service.ts, createReport and
\* the resolution, which look first and write later).
THEOREM DuplicatesAreBounded == Reports!ReportSpec => []DuplicatesBounded
<1>1. ASSUME ReportInv PROVE DuplicatesBounded
  <2>1. Cardinality(Reports!Underway) <= Cardinality(Pending) /\ Cardinality(Reports!Underway) \in Nat
    <3>1. Reports!Underway \in SUBSET Pending
      BY DEF Pending
    <3> QED BY <1>1, <3>1, PendingFinite, FS_Subset, FS_CardinalityType DEF ReportInv
  <2>2. Cardinality(Reports!Underway) <= Cardinality(Reporting)
    BY <1>1, <2>1, PendingFinite DEF ReportInv
  <2> QED BY <2>2, SameCount DEF DuplicatesBounded, Reports!DuplicatesBounded, Reports!Underway
<1> QED BY <1>1, ReportInvariance, PTL
=============================================================================
