-------------------------- MODULE CaseMemory_proofs --------------------------
(***************************************************************************)
(* What CaseMemory keeps for any sessions, modes and bounds: which cases   *)
(* count as confirmed, what the index may hold, which playbooks are        *)
(* recalled, and that a run erases no feedback.  No step makes two rows    *)
(* of incident_case at once, so each fact rests on what the two writers    *)
(* of a row, a run's conclusion and a review, make of the row they find.   *)
(***************************************************************************)
EXTENDS CaseMemory, TLAPS

\* What a review says, it says of a case that is there, and it names its reviewer.
Signed(row) == row.said \/ row.status = "verified" => row.reviewed

ReviewsAreSigned ==
  \A s \in Sessions : (incident[s].said => Exists(s)) /\ Signed(incident[s])

\* A version of a row that counted as confirmed at some time.
OnRecord(versions, s, row) ==
  \E v \in versions : v.session = s /\ v.about = row.about /\ v.stamp = row.stamp

\* Every call under way carries such a version, and so does every row that counts now.
CallsCarryConfirmed ==
  /\ \A s \in Sessions : IsVerified(incident[s]) => OnRecord(confirmed, s, incident[s])
  /\ \A c \in calls : OnRecord(confirmed, c.session, c)

RowInv == CaseMemoryTypeOK /\ VerifiedIffConfirmed /\ ReviewsAreSigned

-----------------------------------------------------------------------------
(* What the two writers of a row make of it.                               *)

\* A review decides alone whether the case is confirmed; what was said before stays.
LEMMA ReviewWrites ==
  ASSUME CaseMemoryTypeOK, NEW s \in Sessions, NEW ok \in BOOLEAN, NEW said \in BOOLEAN,
         Exists(s)
  PROVE  LET row == Upserted(s, Reviewed(s, ok, said)) IN
         /\ row \in Cases
         /\ row.human_verified = ok
         /\ row.status = IF ok THEN "verified" ELSE "rejected"
         /\ incident[s].said => row.said
         /\ row.reviewed
<1> DEFINE new == Reviewed(s, ok, said)
           merged == MergedFeedback(incident[s], new)
<1>1. incident[s] \in Cases
  BY DEF CaseMemoryTypeOK
<1>2. /\ new \in Cases
      /\ new.human_verified = ok /\ new.reviewed
      /\ new.status = IF ok THEN "verified" ELSE "rejected"
      /\ incident[s].said => new.said
  BY <1>1 DEF Reviewed, Cases, CaseStatuses
<1>3. /\ merged \in Cases
      /\ merged.human_verified = ok
      /\ merged.status = new.status
      /\ incident[s].said => merged.said
      /\ merged.reviewed
  BY <1>1, <1>2 DEF MergedFeedback, Cases, CaseStatuses
<1>4. NormalizedCaseStatus(merged) = IF ok THEN "verified" ELSE "rejected"
  BY <1>2, <1>3 DEF NormalizedCaseStatus
<1> HIDE DEF new, merged
<1>5. /\ NormalizedCaseStatus(merged) \in CaseStatuses
      /\ incident[s].stamp + 1 \in Nat
  BY <1>1, <1>4 DEF Cases, CaseStatuses
<1> DEFINE row == Upserted(s, new)
<1>6. row = [merged EXCEPT !.status = NormalizedCaseStatus(merged), !.stamp = incident[s].stamp + 1]
  BY DEF Upserted, merged
<1> HIDE DEF row
<1>7. /\ row \in Cases
      /\ row.human_verified = merged.human_verified /\ row.said = merged.said
      /\ row.reviewed = merged.reviewed /\ row.status = NormalizedCaseStatus(merged)
  <2>1. merged \in Cases
    BY <1>3
  <2> QED
    BY <2>1, <1>5, <1>6 DEF Cases
<1> QED
  BY <1>3, <1>4, <1>7 DEF new, row

\* A run leaves the case as confirmed as it was, and what was said of it, signed.
LEMMA ConclusionWrites ==
  ASSUME RowInv, NEW s \in Sessions, NEW mode \in Modes, NEW n \in 0..MaxRuns
  PROVE  LET row == Upserted(s, Conclusion(n, mode)) IN
         /\ row \in Cases
         /\ row.human_verified = incident[s].human_verified
         /\ row.status = IF incident[s].human_verified THEN "verified" ELSE "pending_review"
         /\ row.said = incident[s].said
         /\ Signed(row)
<1> DEFINE old == incident[s]
           new == Conclusion(n, mode)
           merged == MergedFeedback(old, new)
<1>1. /\ old \in Cases
      /\ old.human_verified <=> old.status = "verified"
      /\ old.said => old.status # "absent"
      /\ old.said \/ old.status = "verified" => old.reviewed
  BY DEF RowInv, CaseMemoryTypeOK, VerifiedIffConfirmed, ReviewsAreSigned, Signed, Exists
<1>2. /\ new \in Cases
      /\ ~new.human_verified /\ ~new.reviewed /\ ~new.said
      /\ new.status = "pending_review"
  BY CaseMemoryAssumptions DEF Conclusion, NoCase, Cases, CaseStatuses, Modes
<1>3. /\ merged \in Cases
      /\ merged.human_verified = old.human_verified
      /\ merged.status = IF old.human_verified THEN "verified" ELSE "pending_review"
      /\ merged.said = old.said
      /\ old.said \/ old.human_verified => merged.reviewed
  <2>1. CASE old.human_verified
    <3> DEFINE row == [new EXCEPT !.human_verified = TRUE, !.status = "verified",
                                  !.reviewed = old.reviewed, !.said = new.said \/ old.said]
    <3>1. old.status = "verified" /\ old.status # "absent"
      BY <1>1, <2>1
    <3>2. merged = row
      BY <1>1, <1>2, <2>1, <3>1 DEF MergedFeedback, Cases, CaseStatuses
    <3> QED
      BY <1>1, <1>2, <2>1, <3>2 DEF Cases, CaseStatuses
  <2>2. CASE ~old.human_verified
    <3>1. old.status # "verified"
      BY <1>1, <2>2
    <3> QED
      BY <1>1, <1>2, <2>2, <3>1 DEF MergedFeedback, Cases, CaseStatuses
  <2> QED
    BY <2>1, <2>2
<1>4. NormalizedCaseStatus(merged) = merged.status
  BY <1>3 DEF NormalizedCaseStatus
<1> HIDE DEF new, merged
<1>5. /\ NormalizedCaseStatus(merged) \in CaseStatuses
      /\ old.stamp + 1 \in Nat
  BY <1>1, <1>3, <1>4 DEF Cases, CaseStatuses
<1> DEFINE row == Upserted(s, new)
<1>6. row = [merged EXCEPT !.status = NormalizedCaseStatus(merged), !.stamp = old.stamp + 1]
  BY DEF Upserted, merged
<1> HIDE DEF row, old
<1>7. /\ row \in Cases
      /\ row.human_verified = merged.human_verified /\ row.said = merged.said
      /\ row.reviewed = merged.reviewed /\ row.status = NormalizedCaseStatus(merged)
  <2>1. merged \in Cases
    BY <1>3
  <2> QED
    BY <2>1, <1>5, <1>6 DEF Cases
<1>8. row.said \/ row.status = "verified" => row.reviewed
  BY <1>3, <1>4, <1>7
<1> QED
  BY <1>3, <1>4, <1>7, <1>8 DEF new, row, old, Signed

-----------------------------------------------------------------------------
(* What one step does to the rows, to the playbooks and to the calls.      *)

\* The rows stay right, and every version that counts is on record.
RowsFollow ==
  /\ incident' \in [Sessions -> Cases]
  /\ verdict' \in [Sessions -> {"none", "yes", "no"}]
  /\ confirmed' \subseteq [session : Sessions, about : 0..MaxRuns, stamp : Nat, human : BOOLEAN]
  /\ confirmed \subseteq confirmed'
  /\ VerifiedIffConfirmed' /\ ReviewsAreSigned'
  /\ \A s \in Sessions : IsVerified(incident'[s]) => OnRecord(confirmed', s, incident'[s])

LEMMA NothingWritten ==
  ASSUME RowInv, CallsCarryConfirmed, UNCHANGED <<incident, verdict, confirmed>>
  PROVE  RowsFollow
BY DEF RowInv, CaseMemoryTypeOK, CallsCarryConfirmed, RowsFollow, VerifiedIffConfirmed, ReviewsAreSigned,
       Exists, OnRecord, IsVerified

LEMMA ReviewStep ==
  ASSUME RowInv, CallsCarryConfirmed, NEW s \in Sessions, NEW ok \in BOOLEAN, NEW said \in BOOLEAN,
         WriteReview(s, ok, said)
  PROVE  /\ RowsFollow
         /\ \A t \in Sessions : Exists(t)' <=> Exists(t)
         /\ \A t \in Sessions : verdict[t] # "none" => verdict'[t] # "none"
         /\ Exists(s) => verdict'[s] # "none"
         /\ ok /\ Exists(s) => OnRecord(confirmed', s, incident'[s])
<1>1. CASE ~Exists(s)
  <2>1. UNCHANGED <<incident, verdict, confirmed>>
    BY <1>1 DEF WriteReview
  <2> QED
    BY <1>1, <2>1, NothingWritten DEF Exists
<1>2. CASE Exists(s)
  <2> DEFINE row == Upserted(s, Reviewed(s, ok, said))
             v == Confirmation(s, row, TRUE)
  <2>1. /\ row \in Cases
        /\ row.human_verified = ok
        /\ row.status = IF ok THEN "verified" ELSE "rejected"
        /\ incident[s].said => row.said
        /\ Signed(row)
    BY <1>2, ReviewWrites DEF RowInv, Signed
  <2>2. /\ incident' = [incident EXCEPT ![s] = row]
        /\ verdict' = [verdict EXCEPT ![s] = IF ok THEN "yes" ELSE "no"]
        /\ confirmed' = IF ok THEN confirmed \cup {Confirmation(s, incident'[s], TRUE)} ELSE confirmed
    BY <1>2 DEF WriteReview
  <2> HIDE DEF row
  <2>3. /\ incident \in [Sessions -> Cases]
        /\ verdict \in [Sessions -> {"none", "yes", "no"}]
        /\ confirmed \subseteq [session : Sessions, about : 0..MaxRuns, stamp : Nat, human : BOOLEAN]
    BY DEF RowInv, CaseMemoryTypeOK
  <2>4. /\ incident' \in [Sessions -> Cases]
        /\ incident'[s] = row
        /\ \A t \in Sessions \ {s} : incident'[t] = incident[t]
        /\ verdict' \in [Sessions -> {"none", "yes", "no"}]
        /\ verdict'[s] = IF ok THEN "yes" ELSE "no"
        /\ \A t \in Sessions \ {s} : verdict'[t] = verdict[t]
    BY <2>1, <2>2, <2>3
  <2>5. /\ v \in [session : Sessions, about : 0..MaxRuns, stamp : Nat, human : BOOLEAN]
        /\ v.session = s /\ v.about = row.about /\ v.stamp = row.stamp
        /\ confirmed' = IF ok THEN confirmed \cup {v} ELSE confirmed
    BY <2>1, <2>2, <2>4 DEF Confirmation, Cases
  <2>6. confirmed' \subseteq [session : Sessions, about : 0..MaxRuns, stamp : Nat, human : BOOLEAN]
        /\ confirmed \subseteq confirmed'
    BY <2>3, <2>5
  <2>7. ok => OnRecord(confirmed', s, incident'[s])
    BY <2>4, <2>5 DEF OnRecord
  <2>8. VerifiedIffConfirmed'
    BY <2>1, <2>4 DEF VerifiedIffConfirmed, RowInv
  <2>9. ReviewsAreSigned' /\ \A t \in Sessions : Exists(t)' <=> Exists(t)
    BY <1>2, <2>1, <2>4 DEF ReviewsAreSigned, RowInv, Exists
  <2>10. \A t \in Sessions : IsVerified(incident'[t]) => OnRecord(confirmed', t, incident'[t])
    <3> SUFFICES ASSUME NEW t \in Sessions, IsVerified(incident'[t])
                 PROVE  OnRecord(confirmed', t, incident'[t])
      OBVIOUS
    <3>1. CASE t = s
      BY <3>1, <2>1, <2>4, <2>7 DEF IsVerified
    <3>2. CASE t # s
      BY <3>2, <2>4, <2>6 DEF CallsCarryConfirmed, OnRecord
    <3> QED
      BY <3>1, <3>2
  <2> QED
    BY <2>4, <2>6, <2>7, <2>8, <2>9, <2>10 DEF RowsFollow
<1> QED
  BY <1>1, <1>2

LEMMA ConclusionStep ==
  ASSUME RowInv, CallsCarryConfirmed, NEW s \in Sessions, NEW mode \in Modes, NEW n \in 0..MaxRuns,
         incident' = [incident EXCEPT ![s] = Upserted(s, Conclusion(n, mode))],
         confirmed' = confirmed \cup
           (IF IsVerified(incident'[s]) THEN {Confirmation(s, incident'[s], FALSE)} ELSE {}),
         verdict' = verdict
  PROVE  /\ RowsFollow
         /\ \A t \in Sessions : incident'[t].said = incident[t].said
         /\ \A t \in Sessions \ {s} : Exists(t)' <=> Exists(t)
<1> DEFINE row == Upserted(s, Conclusion(n, mode))
           v == Confirmation(s, row, FALSE)
<1>1. /\ row \in Cases
      /\ row.human_verified = incident[s].human_verified
      /\ row.status = IF incident[s].human_verified THEN "verified" ELSE "pending_review"
      /\ row.said = incident[s].said
      /\ Signed(row)
  BY ConclusionWrites
<1>2. incident' = [incident EXCEPT ![s] = row]
  OBVIOUS
<1> HIDE DEF row
<1>3. /\ incident \in [Sessions -> Cases]
      /\ verdict \in [Sessions -> {"none", "yes", "no"}]
      /\ confirmed \subseteq [session : Sessions, about : 0..MaxRuns, stamp : Nat, human : BOOLEAN]
  BY DEF RowInv, CaseMemoryTypeOK
<1>4. /\ incident' \in [Sessions -> Cases]
      /\ incident'[s] = row
      /\ \A t \in Sessions \ {s} : incident'[t] = incident[t]
  BY <1>1, <1>2, <1>3
<1>5. /\ v \in [session : Sessions, about : 0..MaxRuns, stamp : Nat, human : BOOLEAN]
      /\ v.session = s /\ v.about = row.about /\ v.stamp = row.stamp
      /\ confirmed' = IF IsVerified(row) THEN confirmed \cup {v} ELSE confirmed
  BY <1>1, <1>4 DEF Confirmation, Cases
<1>6. confirmed' \subseteq [session : Sessions, about : 0..MaxRuns, stamp : Nat, human : BOOLEAN]
      /\ confirmed \subseteq confirmed'
  BY <1>3, <1>5
<1>7. VerifiedIffConfirmed'
  BY <1>1, <1>4 DEF VerifiedIffConfirmed, RowInv
<1>8. ReviewsAreSigned' /\ \A t \in Sessions \ {s} : Exists(t)' <=> Exists(t)
  BY <1>1, <1>4 DEF ReviewsAreSigned, RowInv, Exists
<1>9. \A t \in Sessions : IsVerified(incident'[t]) => OnRecord(confirmed', t, incident'[t])
  <2> SUFFICES ASSUME NEW t \in Sessions, IsVerified(incident'[t])
               PROVE  OnRecord(confirmed', t, incident'[t])
    OBVIOUS
  <2>1. CASE t = s
    BY <2>1, <1>4, <1>5 DEF OnRecord
  <2>2. CASE t # s
    <3>1. incident'[t] = incident[t]
      BY <2>2, <1>4
    <3>2. OnRecord(confirmed, t, incident[t])
      BY <3>1 DEF CallsCarryConfirmed
    <3> QED
      BY <3>1, <3>2, <1>6 DEF OnRecord
  <2> QED
    BY <2>1, <2>2
<1> QED
  BY <1>1, <1>3, <1>4, <1>6, <1>7, <1>8, <1>9 DEF RowsFollow

\* An extraction, whichever rows it reads, touches no playbook that is in recall.
LEMMA ExtractStep ==
  ASSUME CaseMemoryTypeOK, RecalledAsApproved, NEW cases, NEW s, NEW least,
         ExtractPlaybook(cases, s, least) \/ UNCHANGED playbook, approved' = approved
  PROVE  /\ playbook' \in [PlaybookIds -> [status : PlaybookStatuses \cup {"absent"},
                                          human_verified : BOOLEAN, sources : SUBSET Sessions]]
         /\ RecalledAsApproved'
<1> DEFINE group == RelatedVerified(cases, s)
           p == PlaybookOf(group, cases[s].mode)
           candidate == [status |-> "pending_review", human_verified |-> FALSE, sources |-> group]
<1>1. playbook \in [PlaybookIds -> [status : PlaybookStatuses \cup {"absent"},
                                   human_verified : BOOLEAN, sources : SUBSET Sessions]]
  BY DEF CaseMemoryTypeOK
<1>2. candidate \in [status : PlaybookStatuses \cup {"absent"}, human_verified : BOOLEAN,
                    sources : SUBSET Sessions]
  BY DEF RelatedVerified, PlaybookStatuses
<1>3. CASE UNCHANGED playbook
  BY <1>1, <1>3 DEF RecalledAsApproved, Recallable
<1>4. CASE playbook' = [playbook EXCEPT ![p] = IF Recallable(p) THEN @ ELSE candidate]
  <2> HIDE DEF p
  <2>1. \A q \in PlaybookIds :
          playbook'[q] = IF q = p /\ ~Recallable(p) THEN candidate ELSE playbook[q]
    BY <1>1, <1>4
  <2>2. playbook' \in [PlaybookIds -> [status : PlaybookStatuses \cup {"absent"},
                                      human_verified : BOOLEAN, sources : SUBSET Sessions]]
    BY <1>1, <1>2, <1>4
  <2> QED
    BY <2>1, <2>2 DEF RecalledAsApproved, Recallable
<1> QED
  BY <1>3, <1>4 DEF ExtractPlaybook

-----------------------------------------------------------------------------
(* The inductive invariant.                                                *)

IInv ==
  /\ RowInv
  /\ AnsweredWasReviewed
  /\ CallsCarryConfirmed
  /\ IndexHoldsVerified
  /\ RecalledAsApproved

\* The rest of what a step keeps, part by part.
FeedbackFollows ==
  feedback' \in [Sessions -> {"none", "pending", "answered"}] /\ AnsweredWasReviewed'

CallsFollow ==
  /\ calls' \subseteq [session : Sessions, about : 0..MaxRuns, stamp : Nat,
                       at : {"queued", "reading", "writing"}]
  /\ \A c \in calls' : OnRecord(confirmed', c.session, c)

IndexFollows ==
  indexed' \in [Sessions -> [about : 0..MaxRuns, stamp : Nat]] /\ IndexHoldsVerified'

PlaybooksFollow ==
  /\ playbook' \in [PlaybookIds -> [status : PlaybookStatuses \cup {"absent"},
                                    human_verified : BOOLEAN, sources : SUBSET Sessions]]
  /\ approved' \in [PlaybookIds -> [recall : BOOLEAN, sources : SUBSET Sessions]]
  /\ RecalledAsApproved'

CountersFollow ==
  /\ runs' \in 0..MaxRuns /\ reviews' \in 0..MaxReviews /\ edits' \in 0..MaxEdits
  /\ syncs' \in 0..MaxSyncs /\ deaths' \in 0..MaxDeaths

LEMMA PartsMakeInv ==
  ASSUME RowsFollow, FeedbackFollows, CallsFollow, IndexFollows, PlaybooksFollow, CountersFollow
  PROVE  IInv'
BY DEF RowsFollow, FeedbackFollows, CallsFollow, IndexFollows, PlaybooksFollow, CountersFollow,
       IInv, RowInv, CaseMemoryTypeOK, CallsCarryConfirmed

LEMMA FeedbackKept ==
  ASSUME IInv, feedback' = feedback,
         \A t \in Sessions : Exists(t)' <=> Exists(t),
         \A t \in Sessions : verdict[t] # "none" => verdict'[t] # "none"
  PROVE  FeedbackFollows
BY DEF IInv, RowInv, CaseMemoryTypeOK, FeedbackFollows, AnsweredWasReviewed

LEMMA CallsKept ==
  ASSUME IInv, calls' \subseteq calls, confirmed \subseteq confirmed'
  PROVE  CallsFollow
BY DEF IInv, RowInv, CaseMemoryTypeOK, CallsFollow, CallsCarryConfirmed, OnRecord

LEMMA IndexKept ==
  ASSUME IInv, indexed' = indexed, confirmed \subseteq confirmed'
  PROVE  IndexFollows
BY DEF IInv, RowInv, CaseMemoryTypeOK, IndexFollows, IndexHoldsVerified

LEMMA PlaybooksKept ==
  ASSUME IInv, playbook' = playbook, approved' = approved
  PROVE  PlaybooksFollow
BY DEF IInv, RowInv, CaseMemoryTypeOK, PlaybooksFollow, RecalledAsApproved, Recallable

LEMMA PlaybookExtracted ==
  ASSUME IInv, NEW cases, NEW s, NEW least,
         ExtractPlaybook(cases, s, least) \/ UNCHANGED playbook, approved' = approved
  PROVE  PlaybooksFollow
<1>1. CaseMemoryTypeOK /\ RecalledAsApproved
  BY DEF IInv, RowInv
<1>2. approved' \in [PlaybookIds -> [recall : BOOLEAN, sources : SUBSET Sessions]]
  BY <1>1 DEF CaseMemoryTypeOK
<1> QED
  BY <1>1, <1>2, ExtractStep DEF PlaybooksFollow

\* A call may be queued for a version that is on record.
LEMMA CallQueued ==
  ASSUME IInv, RowsFollow, NEW s \in Sessions, OnRecord(confirmed', s, incident'[s]),
         calls' = calls \cup {IndexCall(s, incident'[s])}
  PROVE  CallsFollow
<1>1. incident'[s] \in Cases /\ confirmed \subseteq confirmed'
  BY DEF RowsFollow
<1>2. IndexCall(s, incident'[s]) \in [session : Sessions, about : 0..MaxRuns, stamp : Nat,
                                    at : {"queued", "reading", "writing"}]
  BY <1>1 DEF IndexCall, Cases
<1>3. OnRecord(confirmed', IndexCall(s, incident'[s]).session, IndexCall(s, incident'[s]))
  BY DEF OnRecord, IndexCall
<1> QED
  BY <1>1, <1>2, <1>3
  DEF IInv, RowInv, CaseMemoryTypeOK, CallsFollow, CallsCarryConfirmed, OnRecord

\* A call that goes on carries what it did.
LEMMA CallMoved ==
  ASSUME IInv, NEW c \in calls, NEW place \in {"queued", "reading", "writing"},
         calls' = (calls \ {c}) \cup {[c EXCEPT !.at = place]}, confirmed' = confirmed
  PROVE  CallsFollow
<1>1. c \in [session : Sessions, about : 0..MaxRuns, stamp : Nat, at : {"queued", "reading", "writing"}]
      /\ OnRecord(confirmed, c.session, c)
  BY DEF IInv, RowInv, CaseMemoryTypeOK, CallsCarryConfirmed
<1> DEFINE d == [c EXCEPT !.at = place]
<1>2. /\ d \in [session : Sessions, about : 0..MaxRuns, stamp : Nat, at : {"queued", "reading", "writing"}]
      /\ d.session = c.session /\ d.about = c.about /\ d.stamp = c.stamp
  BY <1>1
<1> HIDE DEF d
<1> QED
  BY <1>1, <1>2
  DEF IInv, RowInv, CaseMemoryTypeOK, CallsFollow, CallsCarryConfirmed, OnRecord, d

-----------------------------------------------------------------------------
(* The steps.                                                              *)

LEMMA InitEstablishes == CaseMemoryInit => IInv
<1> SUFFICES ASSUME CaseMemoryInit PROVE IInv
  OBVIOUS
<1>1. NoCase \in Cases /\ NoCase.status = "absent" /\ ~NoCase.human_verified /\ ~NoCase.said
  BY CaseMemoryAssumptions DEF NoCase, Cases, CaseStatuses, Modes
<1>2. Unindexed \in [about : 0..MaxRuns, stamp : Nat]
  BY CaseMemoryAssumptions DEF Unindexed
<1>3. NoPlaybook \in [status : PlaybookStatuses \cup {"absent"},
                     human_verified : BOOLEAN, sources : SUBSET Sessions]
  BY DEF NoPlaybook
<1>4. CaseMemoryTypeOK
  BY <1>1, <1>2, <1>3, CaseMemoryAssumptions DEF CaseMemoryInit, CaseMemoryTypeOK
<1>5. VerifiedIffConfirmed /\ ReviewsAreSigned /\ AnsweredWasReviewed
  BY <1>1 DEF CaseMemoryInit, VerifiedIffConfirmed, ReviewsAreSigned, Signed, AnsweredWasReviewed, Exists
<1>6. CallsCarryConfirmed /\ IndexHoldsVerified
  BY <1>1 DEF CaseMemoryInit, CallsCarryConfirmed, IndexHoldsVerified, IsVerified
<1>7. RecalledAsApproved
  BY DEF CaseMemoryInit, RecalledAsApproved, Recallable, NoPlaybook
<1> QED
  BY <1>4, <1>5, <1>6, <1>7 DEF IInv, RowInv

LEMMA ConcludeKeeps ==
  ASSUME IInv, NEW s \in Sessions, Conclude(s)
  PROVE  IInv' /\ \A t \in Sessions : incident'[t].said = incident[t].said
<1> PICK mode \in Modes, ask \in BOOLEAN, died \in BOOLEAN :
      /\ runs < MaxRuns
      /\ died => deaths < MaxDeaths
      /\ deaths' = IF died THEN deaths + 1 ELSE deaths
      /\ runs' = runs + 1
      /\ feedback' = [feedback EXCEPT ![s] = IF ask THEN "pending" ELSE "none"]
      /\ IF died
         THEN /\ calls' = {c \in calls : c.at # "queued"}
              /\ UNCHANGED <<incident, confirmed>>
         ELSE /\ incident' = [incident EXCEPT ![s] = Upserted(s, Conclusion(runs', mode))]
              /\ confirmed' = confirmed \cup
                   IF IsVerified(incident'[s]) THEN {Confirmation(s, incident'[s], FALSE)} ELSE {}
              /\ UNCHANGED calls
      /\ UNCHANGED <<verdict, indexed, playbookVars, reviews, edits, syncs>>
  BY DEF Conclude
<1>1. CaseMemoryTypeOK /\ RowInv /\ CallsCarryConfirmed /\ AnsweredWasReviewed
  BY DEF IInv, RowInv
<1>2. runs' \in 0..MaxRuns /\ CountersFollow
  BY <1>1, CaseMemoryAssumptions DEF CaseMemoryTypeOK, CountersFollow
<1>3. /\ RowsFollow
      /\ \A t \in Sessions : incident'[t].said = incident[t].said
      /\ \A t \in Sessions \ {s} : Exists(t)' <=> Exists(t)
  <2>1. CASE died
    BY <1>1, <2>1, NothingWritten DEF Exists
  <2>2. CASE ~died
    BY <1>1, <1>2, <2>2, ConclusionStep
  <2> QED
    BY <2>1, <2>2
<1>4. FeedbackFollows
  BY <1>1, <1>3 DEF FeedbackFollows, CaseMemoryTypeOK, AnsweredWasReviewed
<1>5. confirmed \subseteq confirmed' /\ calls' \subseteq calls
  BY <1>3 DEF RowsFollow
<1>6. CallsFollow /\ IndexFollows
  BY <1>5, CallsKept, IndexKept
<1>7. PlaybooksFollow
  BY PlaybooksKept DEF playbookVars
<1> QED
  BY <1>2, <1>3, <1>4, <1>6, <1>7, PartsMakeInv

LEMMA AnswerFeedbackKeeps ==
  ASSUME IInv, NEW s \in Sessions, AnswerFeedback(s)
  PROVE  IInv'
<1> PICK ok \in BOOLEAN, said \in BOOLEAN, died \in BOOLEAN :
      /\ reviews < MaxReviews
      /\ died => deaths < MaxDeaths
      /\ deaths' = IF died THEN deaths + 1 ELSE deaths
      /\ reviews' = reviews + 1
      /\ WriteReview(s, ok, said)
      /\ IF ok /\ Exists(s) /\ ~died
         THEN ExtractPlaybook(incident', s, MinCases)
         ELSE UNCHANGED playbook
      /\ calls' = IF died THEN {c \in calls : c.at # "queued"}
                  ELSE IF ok /\ Exists(s) THEN calls \cup {IndexCall(s, incident'[s])}
                  ELSE calls
      /\ feedback' = IF died THEN feedback ELSE [feedback EXCEPT ![s] = "answered"]
      /\ UNCHANGED <<indexed, approved, runs, edits, syncs>>
  BY DEF AnswerFeedback
<1>1. CaseMemoryTypeOK /\ RowInv /\ CallsCarryConfirmed /\ AnsweredWasReviewed
  BY DEF IInv, RowInv
<1>2. /\ RowsFollow
      /\ \A t \in Sessions : Exists(t)' <=> Exists(t)
      /\ \A t \in Sessions : verdict[t] # "none" => verdict'[t] # "none"
      /\ Exists(s) => verdict'[s] # "none"
      /\ ok /\ Exists(s) => OnRecord(confirmed', s, incident'[s])
  BY <1>1, ReviewStep
<1>3. FeedbackFollows
  BY <1>1, <1>2 DEF FeedbackFollows, CaseMemoryTypeOK, AnsweredWasReviewed
<1>4. confirmed \subseteq confirmed'
  BY <1>2 DEF RowsFollow
<1>5. CallsFollow
  <2>1. CASE calls' = calls \cup {IndexCall(s, incident'[s])} /\ ok /\ Exists(s)
    BY <1>2, <2>1, CallQueued
  <2>2. CASE calls' \subseteq calls
    BY <1>4, <2>2, CallsKept
  <2> QED
    BY <2>1, <2>2
<1>6. IndexFollows
  BY <1>4, IndexKept
<1>7. PlaybooksFollow
  BY PlaybookExtracted
<1>8. CountersFollow
  BY <1>1, CaseMemoryAssumptions DEF CaseMemoryTypeOK, CountersFollow
<1> QED
  BY <1>2, <1>3, <1>5, <1>6, <1>7, <1>8, PartsMakeInv

LEMMA ReviewCaseKeeps ==
  ASSUME IInv, NEW s \in Sessions, ReviewCase(s)
  PROVE  IInv'
<1> PICK ok \in BOOLEAN, said \in BOOLEAN :
      /\ reviews < MaxReviews
      /\ reviews' = reviews + 1
      /\ WriteReview(s, ok, said)
      /\ IF ok THEN ExtractPlaybook(incident', s, MinCases) ELSE UNCHANGED playbook
      /\ UNCHANGED <<feedback, calls, indexed, approved, runs, edits, syncs, deaths>>
  BY DEF ReviewCase
<1>1. CaseMemoryTypeOK /\ RowInv /\ CallsCarryConfirmed
  BY DEF IInv, RowInv
<1>2. /\ RowsFollow
      /\ \A t \in Sessions : Exists(t)' <=> Exists(t)
      /\ \A t \in Sessions : verdict[t] # "none" => verdict'[t] # "none"
  BY <1>1, ReviewStep
<1>3. confirmed \subseteq confirmed'
  BY <1>2 DEF RowsFollow
<1>4. FeedbackFollows /\ CallsFollow /\ IndexFollows
  BY <1>2, <1>3, FeedbackKept, CallsKept, IndexKept
<1>5. PlaybooksFollow
  BY PlaybookExtracted
<1>6. CountersFollow
  BY <1>1, CaseMemoryAssumptions DEF CaseMemoryTypeOK, CountersFollow
<1> QED
  BY <1>2, <1>4, <1>5, <1>6, PartsMakeInv

\* Every other step leaves the rows, and what is said of them, alone.
LEMMA RowsKept ==
  ASSUME IInv, UNCHANGED caseVars
  PROVE  RowsFollow /\ FeedbackFollows
<1>1. RowInv /\ CallsCarryConfirmed /\ UNCHANGED <<incident, verdict, confirmed, feedback>>
  BY DEF IInv, caseVars
<1>2. RowsFollow
  BY <1>1, NothingWritten
<1>3. FeedbackFollows
  BY <1>1, FeedbackKept DEF Exists
<1> QED
  BY <1>2, <1>3

LEMMA RequestPlaybookKeeps ==
  ASSUME IInv, NEW s \in Sessions, RequestPlaybook(s)
  PROVE  IInv'
<1> PICK least \in {1, MinCases} :
      /\ ExtractPlaybook(incident, s, least)
      /\ UNCHANGED <<caseVars, calls, indexed, approved, runs, reviews, edits, syncs, deaths>>
  BY DEF RequestPlaybook
<1>1. RowsFollow /\ FeedbackFollows /\ confirmed' = confirmed
  BY RowsKept DEF caseVars
<1>2. CallsFollow /\ IndexFollows
  BY <1>1, CallsKept, IndexKept
<1>3. PlaybooksFollow
  BY PlaybookExtracted
<1>4. CountersFollow
  BY DEF IInv, RowInv, CaseMemoryTypeOK, CountersFollow
<1> QED
  BY <1>1, <1>2, <1>3, <1>4, PartsMakeInv

\* The playbook a person has just put down.
LEMMA PlaybookWritten ==
  ASSUME IInv, NEW p \in PlaybookIds, NEW ok \in BOOLEAN, NEW status \in PlaybookStatuses,
         NEW sources \in SUBSET Sessions,
         playbook' = [playbook EXCEPT ![p] =
           [status |-> NormalizedPlaybookStatus(status, ok), human_verified |-> ok, sources |-> sources]],
         Approved(p, ok, status, sources)
  PROVE  PlaybooksFollow
<1> DEFINE row == [status |-> NormalizedPlaybookStatus(status, ok), human_verified |-> ok,
                   sources |-> sources]
           word == [recall |-> ok /\ status \notin {"retired", "rejected"}, sources |-> sources]
<1>1. /\ playbook \in [PlaybookIds -> [status : PlaybookStatuses \cup {"absent"},
                                      human_verified : BOOLEAN, sources : SUBSET Sessions]]
      /\ approved \in [PlaybookIds -> [recall : BOOLEAN, sources : SUBSET Sessions]]
      /\ RecalledAsApproved
  BY DEF IInv, RowInv, CaseMemoryTypeOK
<1>2. /\ row \in [status : PlaybookStatuses \cup {"absent"}, human_verified : BOOLEAN,
                  sources : SUBSET Sessions]
      /\ row.status = "verified" /\ row.human_verified <=> word.recall
      /\ row.sources = word.sources
      /\ word \in [recall : BOOLEAN, sources : SUBSET Sessions]
  BY DEF NormalizedPlaybookStatus, PlaybookStatuses
<1>3. approved' = [approved EXCEPT ![p] = word] /\ playbook' = [playbook EXCEPT ![p] = row]
  BY DEF Approved
<1> HIDE DEF row, word
<1>4. /\ playbook' \in [PlaybookIds -> [status : PlaybookStatuses \cup {"absent"},
                                       human_verified : BOOLEAN, sources : SUBSET Sessions]]
      /\ approved' \in [PlaybookIds -> [recall : BOOLEAN, sources : SUBSET Sessions]]
      /\ playbook'[p] = row /\ approved'[p] = word
      /\ \A q \in PlaybookIds \ {p} : playbook'[q] = playbook[q] /\ approved'[q] = approved[q]
  BY <1>1, <1>2, <1>3
<1>5. RecalledAsApproved'
  BY <1>1, <1>2, <1>4 DEF RecalledAsApproved, Recallable
<1> QED
  BY <1>4, <1>5 DEF PlaybooksFollow

\* A review replaces two columns of a playbook.
LEMMA EntryEdited ==
  ASSUME CaseMemoryTypeOK, NEW p \in PlaybookIds, NEW ok \in BOOLEAN, NEW status
  PROVE  [playbook EXCEPT ![p].human_verified = ok, ![p].status = status] =
         [playbook EXCEPT ![p] = [status |-> status, human_verified |-> ok,
                                  sources |-> playbook[p].sources]]
<1> DEFINE half == [playbook[p] EXCEPT !.human_verified = ok]
           row == [status |-> status, human_verified |-> ok, sources |-> playbook[p].sources]
           g == [playbook EXCEPT ![p] = half]
<1>1. /\ DOMAIN playbook = PlaybookIds
      /\ playbook[p] \in [status : PlaybookStatuses \cup {"absent"}, human_verified : BOOLEAN,
                          sources : SUBSET Sessions]
  BY DEF CaseMemoryTypeOK
<1>2. half = [status |-> playbook[p].status, human_verified |-> ok, sources |-> playbook[p].sources]
  BY <1>1
<1>3. [half EXCEPT !.status = status] = row
  <2> HIDE DEF half
  <2> QED
    BY <1>2
<1>4. [playbook EXCEPT ![p].human_verified = ok, ![p].status = status] =
      [g EXCEPT ![p] = [g[p] EXCEPT !.status = status]]
  OBVIOUS
<1>5. g = [playbook EXCEPT ![p] = half]
  OBVIOUS
<1> HIDE DEF half, row, g
<1>6. DOMAIN g = PlaybookIds /\ g[p] = half
  BY <1>1, <1>5
<1>7. [g EXCEPT ![p] = row] = [playbook EXCEPT ![p] = row]
  BY <1>1, <1>5
<1>8. [g EXCEPT ![p] = [g[p] EXCEPT !.status = status]] = [g EXCEPT ![p] = row]
  BY <1>3, <1>6
<1> QED
  BY <1>4, <1>7, <1>8 DEF row

LEMMA PlaybookEditKeeps ==
  ASSUME IInv, NEW p \in PlaybookIds, ReviewPlaybook(p) \/ UpsertPlaybook(p)
  PROVE  IInv'
<1>1. /\ UNCHANGED <<caseVars, calls, indexed, runs, reviews, syncs, deaths>>
      /\ edits < MaxEdits /\ edits' = edits + 1
  BY DEF ReviewPlaybook, UpsertPlaybook
<1>2. RowsFollow /\ FeedbackFollows /\ confirmed' = confirmed
  BY <1>1, RowsKept DEF caseVars
<1>3. CallsFollow /\ IndexFollows
  BY <1>1, <1>2, CallsKept, IndexKept
<1>4. PlaybooksFollow
  <2>1. playbook \in [PlaybookIds -> [status : PlaybookStatuses \cup {"absent"},
                                     human_verified : BOOLEAN, sources : SUBSET Sessions]]
    BY DEF IInv, RowInv, CaseMemoryTypeOK
  <2>2. CASE ReviewPlaybook(p)
    <3> PICK ok \in BOOLEAN, status \in PlaybookStatuses :
          /\ playbook' = [playbook EXCEPT ![p].human_verified = ok,
                                          ![p].status = NormalizedPlaybookStatus(status, ok)]
          /\ Approved(p, ok, status, playbook[p].sources)
      BY <2>2 DEF ReviewPlaybook
    <3>1. playbook' = [playbook EXCEPT ![p] =
                         [status |-> NormalizedPlaybookStatus(status, ok),
                          human_verified |-> ok, sources |-> playbook[p].sources]]
      BY EntryEdited, Zenon DEF IInv, RowInv
    <3>2. playbook[p].sources \in SUBSET Sessions
      BY <2>1
    <3> QED
      BY <3>1, <3>2, PlaybookWritten
  <2>3. CASE UpsertPlaybook(p)
    <3> PICK ok \in BOOLEAN, status \in PlaybookStatuses :
          /\ playbook' = [playbook EXCEPT ![p] =
                            [status |-> NormalizedPlaybookStatus(status, ok),
                             human_verified |-> ok, sources |-> {}]]
          /\ Approved(p, ok, status, {})
      BY <2>3 DEF UpsertPlaybook
    <3>1. {} \in SUBSET Sessions
      OBVIOUS
    <3> QED
      BY <3>1, PlaybookWritten
  <2> QED
    BY <2>2, <2>3
<1>5. CountersFollow
  BY <1>1, CaseMemoryAssumptions DEF IInv, RowInv, CaseMemoryTypeOK, CountersFollow
<1> QED
  BY <1>2, <1>3, <1>4, <1>5, PartsMakeInv

\* The index calls are what they were, but for the one that moves.
LEMMA CallStepKeeps ==
  ASSUME IInv, NEW c \in calls, SendCall(c) \/ SyncRead(c) \/ CallFails(c)
  PROVE  IInv'
<1>1. UNCHANGED <<caseVars, indexed, playbookVars, runs, reviews, edits, syncs, deaths>>
  BY DEF SendCall, SyncRead, CallFails
<1>2. RowsFollow /\ FeedbackFollows /\ confirmed' = confirmed
  BY <1>1, RowsKept DEF caseVars
<1>3. CallsFollow
  <2>1. CASE calls' = calls \ {c}
    <3>1. calls' \subseteq calls
      BY <2>1
    <3> QED
      BY <3>1, <1>2, CallsKept
  <2>2. CASE calls' = (calls \ {c}) \cup {[c EXCEPT !.at = "reading"]}
    BY <2>2, <1>2, CallMoved
  <2>3. CASE calls' = (calls \ {c}) \cup {[c EXCEPT !.at = "writing"]}
    BY <2>3, <1>2, CallMoved
  <2> QED
    BY <2>1, <2>2, <2>3 DEF SendCall, SyncRead, CallFails
<1>4. IndexFollows /\ PlaybooksFollow
  BY <1>1, <1>2, IndexKept, PlaybooksKept DEF playbookVars
<1>5. CountersFollow
  BY <1>1 DEF IInv, RowInv, CaseMemoryTypeOK, CountersFollow
<1> QED
  BY <1>2, <1>3, <1>4, <1>5, PartsMakeInv

\* What the service writes is what the call carries, so it is on record.
LEMMA SyncWriteKeeps ==
  ASSUME IInv, NEW c \in calls, SyncWrite(c)
  PROVE  IInv'
<1>1. /\ UNCHANGED <<caseVars, playbookVars, runs, reviews, edits, syncs, deaths>>
      /\ indexed' = [indexed EXCEPT ![c.session] = [about |-> c.about, stamp |-> c.stamp]]
      /\ calls' \subseteq calls
  BY DEF SyncWrite
<1>2. RowsFollow /\ FeedbackFollows /\ confirmed' = confirmed
  BY <1>1, RowsKept DEF caseVars
<1>3. CallsFollow /\ PlaybooksFollow
  BY <1>1, <1>2, CallsKept, PlaybooksKept DEF playbookVars
<1>4. IndexFollows
  <2>1. /\ indexed \in [Sessions -> [about : 0..MaxRuns, stamp : Nat]]
        /\ c.session \in Sessions /\ c.about \in 0..MaxRuns /\ c.stamp \in Nat
        /\ OnRecord(confirmed, c.session, c)
    BY DEF IInv, RowInv, CaseMemoryTypeOK, CallsCarryConfirmed
  <2>2. /\ indexed' \in [Sessions -> [about : 0..MaxRuns, stamp : Nat]]
        /\ indexed'[c.session].about = c.about /\ indexed'[c.session].stamp = c.stamp
        /\ \A s \in Sessions \ {c.session} : indexed'[s] = indexed[s]
    BY <1>1, <2>1
  <2>3. IndexHoldsVerified'
    BY <1>2, <2>1, <2>2 DEF IInv, IndexHoldsVerified, OnRecord
  <2> QED
    BY <2>2, <2>3 DEF IndexFollows
<1>5. CountersFollow
  BY <1>1 DEF IInv, RowInv, CaseMemoryTypeOK, CountersFollow
<1> QED
  BY <1>2, <1>3, <1>4, <1>5, PartsMakeInv

\* The script sends the rows that count as they are.
LEMMA SyncAllKeeps ==
  ASSUME IInv, SyncAll
  PROVE  IInv'
<1> DEFINE call(s) == [IndexCall(s, incident[s]) EXCEPT !.at = "reading"]
<1>1. /\ UNCHANGED <<caseVars, indexed, playbookVars, runs, reviews, edits, deaths>>
      /\ syncs < MaxSyncs /\ syncs' = syncs + 1
      /\ calls' = calls \cup {call(s) : s \in {t \in Sessions : IsVerified(incident[t])}}
  BY DEF SyncAll
<1>2. RowsFollow /\ FeedbackFollows /\ confirmed' = confirmed
  BY <1>1, RowsKept DEF caseVars
<1>3. ASSUME NEW s \in Sessions, IsVerified(incident[s])
      PROVE  /\ call(s) \in [session : Sessions, about : 0..MaxRuns, stamp : Nat,
                             at : {"queued", "reading", "writing"}]
             /\ OnRecord(confirmed, call(s).session, call(s))
  <2>1. incident[s] \in Cases /\ OnRecord(confirmed, s, incident[s])
    BY <1>3 DEF IInv, RowInv, CaseMemoryTypeOK, CallsCarryConfirmed
  <2>2. call(s) = [session |-> s, about |-> incident[s].about, stamp |-> incident[s].stamp,
                   at |-> "reading"]
    BY DEF IndexCall
  <2> QED
    BY <2>1, <2>2 DEF OnRecord, Cases
<1>4. CallsFollow
  <2> HIDE DEF call
  <2> QED
    BY <1>1, <1>2, <1>3 DEF IInv, RowInv, CaseMemoryTypeOK, CallsFollow, CallsCarryConfirmed
<1>5. IndexFollows /\ PlaybooksFollow
  BY <1>1, <1>2, IndexKept, PlaybooksKept DEF playbookVars
<1>6. CountersFollow
  BY <1>1, CaseMemoryAssumptions DEF IInv, RowInv, CaseMemoryTypeOK, CountersFollow
<1> QED
  BY <1>2, <1>4, <1>5, <1>6, PartsMakeInv

LEMMA NextKeeps ==
  ASSUME IInv, [CaseMemoryNext]_memoryVars
  PROVE  IInv'
<1>1. ASSUME NEW s \in Sessions,
             Conclude(s) \/ AnswerFeedback(s) \/ ReviewCase(s) \/ RequestPlaybook(s)
      PROVE  IInv'
  BY <1>1, ConcludeKeeps, AnswerFeedbackKeeps, ReviewCaseKeeps, RequestPlaybookKeeps
<1>2. ASSUME NEW p \in PlaybookIds, ReviewPlaybook(p) \/ UpsertPlaybook(p)
      PROVE  IInv'
  BY <1>2, PlaybookEditKeeps
<1>3. CASE SyncAll
  BY <1>3, SyncAllKeeps
<1>4. ASSUME NEW c \in calls, SendCall(c) \/ SyncRead(c) \/ SyncWrite(c) \/ CallFails(c)
      PROVE  IInv'
  BY <1>4, CallStepKeeps, SyncWriteKeeps
<1>5. CASE UNCHANGED memoryVars
  <2>1. UNCHANGED <<caseVars, calls, indexed, playbookVars, runs, reviews, edits, syncs, deaths>>
    BY <1>5 DEF memoryVars
  <2>2. RowsFollow /\ FeedbackFollows /\ confirmed' = confirmed
    BY <2>1, RowsKept DEF caseVars
  <2>3. CallsFollow /\ IndexFollows /\ PlaybooksFollow
    BY <2>1, <2>2, CallsKept, IndexKept, PlaybooksKept DEF playbookVars
  <2>4. CountersFollow
    BY <2>1 DEF IInv, RowInv, CaseMemoryTypeOK, CountersFollow
  <2> QED
    BY <2>2, <2>3, <2>4, PartsMakeInv
<1> QED
  BY <1>1, <1>2, <1>3, <1>4, <1>5 DEF CaseMemoryNext

-----------------------------------------------------------------------------
(* The theorems.                                                           *)

LEMMA InvAlways == CaseMemorySpec => []IInv
BY InitEstablishes, NextKeeps, PTL DEF CaseMemorySpec

\* The rows, the calls, the index and the playbooks always hold what their columns allow.
THEOREM MemoryTypeCorrect == CaseMemorySpec => []CaseMemoryTypeOK
<1>1. IInv => CaseMemoryTypeOK
  BY DEF IInv, RowInv
<1> QED
  BY <1>1, InvAlways, PTL

\* Whatever order runs and reviews come in, a case counts as confirmed exactly
\* while the last verdict stored on it is yes (merge_incident_case_feedback).
THEOREM ConfirmationFollowsVerdict == CaseMemorySpec => []VerifiedIffConfirmed
<1>1. IInv => VerifiedIffConfirmed
  BY DEF IInv, RowInv
<1> QED
  BY <1>1, InvAlways, PTL

\* No death inside _resume_feedback leaves an answered interrupt without its review.
THEOREM NoReviewIsLost == CaseMemorySpec => []AnsweredWasReviewed
<1>1. IInv => AnsweredWasReviewed
  BY DEF IInv
<1> QED
  BY <1>1, InvAlways, PTL

\* The case index holds only row versions that counted as confirmed, however many
\* index calls run beside the runs and reviews that replace those rows.
THEOREM IndexOnlyConfirmedVersions == CaseMemorySpec => []IndexHoldsVerified
<1>1. IInv => IndexHoldsVerified
  BY DEF IInv
<1> QED
  BY <1>1, InvAlways, PTL

\* Recall follows the last word of a human on each playbook: no extraction changes,
\* withdraws or admits one (_try_extract_playbook_candidate).
THEOREM RecallFollowsApproval == CaseMemorySpec => []RecalledAsApproved
<1>1. IInv => RecalledAsApproved
  BY DEF IInv
<1> QED
  BY <1>1, InvAlways, PTL

\* Whatever a run concludes, it keeps the cause and the accuracies a review named, and
\* the reviewer, time and note of a case that is confirmed or of which a review named any:
\* what upsert_case can take from a review is that of a rejection with a comment alone.
THEOREM FeedbackOutlivesRuns == CaseMemorySpec => RunsKeepFeedback
<1>1. ASSUME IInv, [CaseMemoryNext]_memoryVars
      PROVE  [\A s \in Sessions :
                runs' # runs /\ (incident[s].said \/ verdict[s] = "yes")
                  => incident'[s].said = incident[s].said /\ incident'[s].reviewed]_memoryVars
  <2>1. ASSUME NEW s \in Sessions, Conclude(s)
        PROVE  \A t \in Sessions :
                 incident[t].said \/ verdict[t] = "yes"
                   => incident'[t].said = incident[t].said /\ incident'[t].reviewed
    <3>1. \A t \in Sessions : incident'[t].said = incident[t].said /\ verdict'[t] = verdict[t]
      BY <1>1, <2>1, ConcludeKeeps DEF Conclude
    <3>2. VerifiedIffConfirmed' /\ ReviewsAreSigned'
      BY <1>1, <2>1, ConcludeKeeps DEF IInv, RowInv
    <3> QED
      BY <3>1, <3>2 DEF VerifiedIffConfirmed, ReviewsAreSigned, Signed
  <2>2. CASE runs' = runs
    BY <2>2
  <2>3. CASE runs' # runs
    <3>1. \E s \in Sessions : Conclude(s)
      BY <1>1, <2>3 DEF CaseMemoryNext, memoryVars, AnswerFeedback, ReviewCase, RequestPlaybook,
        ReviewPlaybook, UpsertPlaybook, SyncAll, SendCall, SyncRead, SyncWrite, CallFails
    <3> QED
      BY <2>1, <3>1
  <2> QED
    BY <2>2, <2>3
<1> QED
  BY <1>1, InvAlways, PTL DEF CaseMemorySpec, RunsKeepFeedback

=============================================================================
