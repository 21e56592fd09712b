----------------------------- MODULE SponsorAds -----------------------------
(***************************************************************************)
(* One advertisement of a sponsor: its sponsor edits, submits, pauses and  *)
(* deletes it, administrators review and moderate it, the public sees it.  *)
(* Each call looks the row up, decides on a status and writes it by id,    *)
(* whatever the row has become; moderation looks at nothing.               *)
(***************************************************************************)
EXTENDS Naturals

CONSTANTS Campaigning,   \* calls that may run at the same time
          MaxEdits       \* bound: edits of the content

VARIABLES ad,          \* sponsor_ads; edits numbers the content, reviewed is what was approved last
          window,      \* the clock, seen from startsAt and endsAt
          sponsorActive,
          eventOpen,   \* no event, or one that is PUBLISHED or ONGOING and not over
          campaigning

adVars == <<ad, window, sponsorActive, eventOpen, campaigning>>

Live == {"APPROVED", "PUBLISHED"}
Windows == {"before", "during", "after"}
NoCampaign == [pc |-> "idle", status |-> "none", edits |-> 0]

AdInit ==
  /\ ad = [status |-> "none", deleted |-> FALSE, edits |-> 0, reviewed |-> 0, decided |-> FALSE]
  /\ window \in {"before", "during"} /\ sponsorActive = TRUE /\ eventOpen \in BOOLEAN
  /\ campaigning = [c \in Campaigning |-> NoCampaign]

\* discoverPublicAds and getPublicAdById.
Visible ==
  /\ ~ad.deleted /\ ad.status \in Live
  /\ window = "during" /\ sponsorActive /\ eventOpen

Time ==
  /\ \/ window = "before" /\ window' = "during"
     \/ window = "during" /\ window' = "after"
  /\ UNCHANGED <<ad, sponsorActive, eventOpen, campaigning>>

\* The sponsor's account ends or returns; the event opens or closes.
Surroundings ==
  /\ \/ sponsorActive' = ~sponsorActive /\ UNCHANGED eventOpen
     \/ eventOpen' = ~eventOpen /\ UNCHANGED sponsorActive
  /\ UNCHANGED <<ad, window, campaigning>>

Found == ad.status # "none" /\ ~ad.deleted

Reads(c, pc, status) ==
  /\ campaigning[c] = NoCampaign /\ Found
  /\ campaigning' = [campaigning EXCEPT ![c] =
       [pc |-> pc, status |-> status, edits |-> ad.edits]]
  /\ UNCHANGED <<ad, window, sponsorActive, eventOpen>>

-----------------------------------------------------------------------------
(* The sponsor *)

CreateAd ==
  /\ ad.status = "none" /\ sponsorActive
  /\ ad' = [ad EXCEPT !.status = "DRAFT"]
  /\ UNCHANGED <<window, sponsorActive, eventOpen, campaigning>>

\* An edit of the content of an ad that is approved sends it back to review.
UpdatedStatus == IF ad.status \in Live THEN "PENDING_REVIEW" ELSE ad.status

ReadForEdit(c) == sponsorActive /\ Reads(c, "edit", UpdatedStatus)
ReadForDates(c) == sponsorActive /\ Reads(c, "dates", ad.status)
ReadForSubmit(c) ==
  sponsorActive /\ ad.status \in {"DRAFT", "REJECTED", "PAUSED"} /\ Reads(c, "status", "PENDING_REVIEW")

\* Mutant of Toggled: whatever is not shown is resumed.
ToggledAnything == IF ad.status \in Live THEN "PAUSED" ELSE "PUBLISHED"

Toggled == IF ad.status \in Live THEN "PAUSED" ELSE IF ad.status = "PAUSED" THEN "PUBLISHED" ELSE "none"

ReadForToggle(c) == sponsorActive /\ Toggled # "none" /\ Reads(c, "status", Toggled)
ReadForDelete(c) == sponsorActive /\ Reads(c, "delete", ad.status)

-----------------------------------------------------------------------------
(* Administrators: a review decides on the content the ad had when it was read *)

ReadForReview(c) ==
  /\ ad.status = "PENDING_REVIEW"
  /\ \/ Reads(c, "approve", IF window = "during" THEN "PUBLISHED" ELSE "APPROVED")
     \/ Reads(c, "status", "REJECTED")

\* POST /admin/moderation: RESTORE approves, any other action rejects, and a
\* deleted ad stays deleted.
Moderate(status) ==
  /\ ad.status # "none"
  /\ ad' = IF status = "APPROVED" THEN [ad EXCEPT !.status = status, !.decided = TRUE, !.reviewed = ad.edits]
           ELSE [ad EXCEPT !.status = status]
  /\ UNCHANGED <<window, sponsorActive, eventOpen, campaigning>>

-----------------------------------------------------------------------------
Writes(c, pc) ==
  /\ campaigning[c].pc = pc
  /\ campaigning' = [campaigning EXCEPT ![c] = NoCampaign]
  /\ UNCHANGED <<sponsorActive, eventOpen>>

WriteStatus(c) ==
  /\ Writes(c, "status") /\ UNCHANGED window
  /\ ad' = [ad EXCEPT !.status = campaigning[c].status]

WriteEdit(c) ==
  /\ ad.edits < MaxEdits
  /\ Writes(c, "edit") /\ UNCHANGED window
  /\ ad' = [ad EXCEPT !.status = campaigning[c].status, !.edits = @ + 1]

\* New dates: any that end after they start.
WriteDates(c) ==
  /\ Writes(c, "dates") /\ window' \in Windows
  /\ ad' = [ad EXCEPT !.status = campaigning[c].status]

WriteDelete(c) ==
  /\ Writes(c, "delete") /\ UNCHANGED window
  /\ ad' = [ad EXCEPT !.deleted = TRUE]

WriteApproval(c) ==
  /\ Writes(c, "approve") /\ UNCHANGED window
  /\ ad' = [ad EXCEPT !.status = campaigning[c].status, !.decided = TRUE, !.reviewed = campaigning[c].edits]

CampaignFails(c) ==
  /\ campaigning[c] # NoCampaign
  /\ campaigning' = [campaigning EXCEPT ![c] = NoCampaign]
  /\ UNCHANGED <<ad, window, sponsorActive, eventOpen>>

AdNext ==
  \/ Time \/ Surroundings \/ CreateAd
  \/ \E status \in {"APPROVED", "REJECTED"} : Moderate(status)
  \/ \E c \in Campaigning :
       \/ ReadForEdit(c) \/ ReadForDates(c) \/ ReadForSubmit(c) \/ ReadForToggle(c) \/ ReadForDelete(c)
       \/ ReadForReview(c)
       \/ WriteStatus(c) \/ WriteEdit(c) \/ WriteDates(c) \/ WriteDelete(c) \/ WriteApproval(c)
       \/ CampaignFails(c)

AdSpec == AdInit /\ [][AdNext]_adVars

-----------------------------------------------------------------------------
\* The public never sees an ad no administrator has decided for: no edit,
\* pause, submission or overlap of theirs gets a draft past the review.
VisibleWasDecided == Visible => ad.decided

\* What a comment in updateAd promises: whoever edits the content of an ad
\* that is approved or published has it reviewed again.
VisibleWasReviewed == Visible => ad.reviewed = ad.edits
=============================================================================
