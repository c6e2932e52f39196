---------------------------- MODULE RecordsProofs ----------------------------
(***************************************************************************)
(* The records of the workspace keep their promises for any people, items, *)
(* messages and calls in flight: evidence, conversations, operations and   *)
(* the catalogue.                                                          *)
(***************************************************************************)
EXTENDS Evidence, Conversations, Operations, Organisation, FiniteSetTheorems, TLAPS

-----------------------------------------------------------------------------
(* Evidence *)

Keys == SubmissionKey \cup {"no key"}
SubmissionRec ==
  [stage : {"unknown"}, kind : Kind, key : Keys] \cup
  [stage : {"locked"}, kind : Kind, key : Keys, fresh : BOOLEAN, old : SUBSET Item] \cup {NoSubmission}
OpenPage == [stage : {"rows", "shown"}, of : Item, text : 0..MaxText, files : SUBSET EFile, fresh : BOOLEAN]
PageRec == OpenPage \cup {NoPage}

EvidenceRows ==
  /\ item \in [Item -> ItemRec \cup {NoItem}]
  /\ efile \in [EFile -> EFileRec]
  /\ submission \in [Submission -> SubmissionRec]
  /\ page \in [Page -> PageRec]

(* A file that is being uploaded has no row, unless no answer to its COMMIT  *)
(* will come; what is stored, or was answered for, has its object; what it   *)
(* replaces are files of the same item.                                      *)
UploadOK(file) ==
  /\ file.upload # "none" => file.of \in Item
  /\ file.row # "none" => file.upload \in {"none", "unsure"}
  /\ file.upload = "stored" => file.object
  /\ file.answered => file.row # "none" /\ file.upload = "none" /\ file.object
UploadInv ==
  \A f \in EFile :
    /\ UploadOK(efile[f])
    /\ \A g \in efile[f].replaces : efile[g].row # "none" /\ efile[g].of = efile[f].of

(* A page that is not behind shows what the item is. *)
PageInv ==
  \A p \in Page : page[p] # NoPage =>
    /\ Submitted(page[p].of)
    /\ page[p].fresh => page[p].text = item[page[p].of].text
    /\ page[p].fresh /\ page[p].stage = "shown" => page[p].files = ActiveFiles(page[p].of)

(* One submission at a time holds its owner's lock, and has read the CV.     *)
LockedInv ==
  \A s \in Submission : submission[s].stage = "locked" =>
    /\ submission[s].old = IF submission[s].kind = "cv" THEN ActiveCv ELSE {}
    /\ \A o \in Submission : submission[o].stage = "locked" => o = s
OneCv == \A i, j \in ActiveCv : i = j

EvidenceInv ==
  EvidenceRows /\ UploadInv /\ PageInv /\ LockedInv /\ OneCv /\ OneItemPerKey /\ ReviewDescribesContent

LEMMA NoItemIsNone == NoItem \notin ItemRec
  BY DEF NoItem, ItemRec, Kind

LEMMA EvidenceStart == EvidenceInit => EvidenceInv
<1> SUFFICES ASSUME EvidenceInit PROVE EvidenceInv
  OBVIOUS
<1>1. NoEFile \in EFileRec
  BY DEF NoEFile, EFileRec
<1>2. \A i \in Item : ~Submitted(i)
  BY DEF EvidenceInit, Submitted
<1>3. ActiveCv = {}
  BY <1>2 DEF ActiveCv, Current
<1>4. QED
  BY <1>1, <1>2, <1>3
  DEF EvidenceInit, EvidenceInv, EvidenceRows, SubmissionRec, PageRec, UploadInv, UploadOK, PageInv, LockedInv, OneCv,
      OneItemPerKey, ReviewDescribesContent, NoEFile, NoSubmission, NoPage

(* Who read the item before is behind, and nothing else of a page moves.     *)
LEMMA NumberedPages ==
  ASSUME EvidenceRows, NEW i \in Item, Numbered(i)
  PROVE  /\ page' \in [Page -> PageRec]
         /\ submission' \in [Submission -> SubmissionRec]
         /\ \A p \in Page : page'[p] # NoPage =>
              /\ page[p] # NoPage /\ page'[p].of = page[p].of
              /\ page'[p].fresh => page'[p] = page[p] /\ page[p].of # i
         /\ \A s \in Submission :
              /\ submission'[s].stage = submission[s].stage
              /\ submission[s].stage = "locked" =>
                   submission'[s].kind = submission[s].kind /\ submission'[s].old = submission[s].old
<1>1. ASSUME NEW p \in Page
      PROVE  /\ page'[p] \in PageRec
             /\ page'[p] # NoPage =>
                  /\ page[p] # NoPage /\ page'[p].of = page[p].of
                  /\ page'[p].fresh => page'[p] = page[p] /\ page[p].of # i
  <2> DEFINE behind == [page[p] EXCEPT !.fresh = FALSE]
  <2>1. page[p] \in PageRec
    BY DEF EvidenceRows
  <2>2. CASE page[p].stage # "none" /\ page[p].of = i
    <3>1. page[p] \in OpenPage
      BY <2>1, <2>2 DEF PageRec, NoPage
    <3>2. behind \in OpenPage /\ ~behind.fresh /\ behind.of = page[p].of
      BY <3>1 DEF OpenPage
    <3>3. page'[p] = behind
      BY <2>2 DEF Numbered
    <3>4. page[p] # NoPage
      BY <2>2 DEF NoPage
    <3>5. QED
      BY <3>2, <3>3, <3>4 DEF PageRec
  <2>3. CASE ~(page[p].stage # "none" /\ page[p].of = i)
    BY <2>1, <2>3 DEF Numbered, PageRec, OpenPage, NoPage
  <2>4. QED
    BY <2>2, <2>3
<1>2. ASSUME NEW s \in Submission
      PROVE  /\ submission'[s] \in SubmissionRec /\ submission'[s].stage = submission[s].stage
             /\ submission[s].stage = "locked" =>
                   submission'[s].kind = submission[s].kind /\ submission'[s].old = submission[s].old
  <2> DEFINE behind == [submission[s] EXCEPT !.fresh = FALSE]
  <2>1. submission[s] \in SubmissionRec
    BY DEF EvidenceRows
  <2>2. CASE submission[s].stage = "locked" /\ submission[s].old = {i}
    <3>1. /\ behind \in SubmissionRec /\ behind.stage = "locked"
          /\ behind.kind = submission[s].kind /\ behind.old = submission[s].old
      BY <2>1, <2>2 DEF SubmissionRec, NoSubmission
    <3>2. submission'[s] = behind
      BY <2>2 DEF Numbered
    <3>3. QED
      BY <2>2, <3>1, <3>2
  <2>3. CASE ~(submission[s].stage = "locked" /\ submission[s].old = {i})
    BY <2>1, <2>3 DEF Numbered
  <2>4. QED
    BY <2>2, <2>3
<1>3. DOMAIN page' = Page /\ DOMAIN submission' = Submission
  BY DEF Numbered
<1>4. page' \in [Page -> PageRec] /\ submission' \in [Submission -> SubmissionRec]
  BY <1>1, <1>2, <1>3 DEF Numbered
<1>5. QED
  BY <1>1, <1>2, <1>4

LEMMA DatedFiles ==
  ASSUME NEW files \in [EFile -> EFileRec], NEW i
  PROVE  /\ Dated(files, i) \in [EFile -> EFileRec]
         /\ \A f \in EFile : /\ Dated(files, i)[f].row = files[f].row /\ Dated(files, i)[f].of = files[f].of
                             /\ Dated(files, i)[f].object = files[f].object
                             /\ Dated(files, i)[f].upload = files[f].upload
                             /\ Dated(files, i)[f].replaces = files[f].replaces
                             /\ Dated(files, i)[f].answered = files[f].answered
<1>1. ASSUME NEW f \in EFile
      PROVE  /\ Dated(files, i)[f] \in EFileRec
             /\ Dated(files, i)[f].row = files[f].row /\ Dated(files, i)[f].of = files[f].of
             /\ Dated(files, i)[f].object = files[f].object /\ Dated(files, i)[f].upload = files[f].upload
             /\ Dated(files, i)[f].replaces = files[f].replaces
             /\ Dated(files, i)[f].answered = files[f].answered
  <2> DEFINE behind == [files[f] EXCEPT !.fresh = FALSE]
  <2>1. files[f] \in EFileRec
    OBVIOUS
  <2>2. /\ behind \in EFileRec /\ behind.row = files[f].row /\ behind.of = files[f].of
        /\ behind.object = files[f].object /\ behind.upload = files[f].upload /\ behind.replaces = files[f].replaces
        /\ behind.answered = files[f].answered
    BY <2>1 DEF EFileRec
  <2>3. Dated(files, i)[f] = behind \/ Dated(files, i)[f] = files[f]
    BY DEF Dated
  <2> HIDE DEF behind
  <2>4. QED
    BY <2>1, <2>2, <2>3
<1>2. QED
  BY <1>1 DEF Dated

LEMMA SameRows ==
  ASSUME NEW j, \A f \in EFile : efile'[f].row = efile[f].row /\ efile'[f].of = efile[f].of
  PROVE  ActiveFiles(j)' = ActiveFiles(j)
  BY DEF ActiveFiles

(* What a file's upload goes through changes no item and no file's row.      *)
LEMMA FilesMoved ==
  ASSUME EvidenceInv, UNCHANGED <<item, submission, page>>, efile' \in [EFile -> EFileRec], UploadInv',
         \A f \in EFile : (efile'[f].row = efile[f].row /\ efile'[f].of = efile[f].of)
                          \/ (efile'[f].row = "none" /\ efile[f].row = "none")
  PROVE  EvidenceInv'
<1>1. \A j \in Item : ActiveFiles(j)' = ActiveFiles(j)
  BY DEF ActiveFiles
<1>2. ActiveCv' = ActiveCv
  BY DEF ActiveCv, Current, Submitted
<1>3. PageInv'
  <2>1. \A p \in Page : page[p] # NoPage => page[p].of \in Item
    BY DEF EvidenceInv, EvidenceRows, PageRec, OpenPage
  <2>2. QED
    BY <1>1, <2>1 DEF EvidenceInv, PageInv, Submitted
<1>4. ReviewDescribesContent'
  BY <1>1 DEF EvidenceInv, ReviewDescribesContent, ContentOf, Submitted
<1>5. LockedInv' /\ OneCv' /\ OneItemPerKey' /\ EvidenceRows'
  BY <1>2 DEF EvidenceInv, LockedInv, OneCv, OneItemPerKey, EvidenceRows, Submitted
<1>6. QED
  BY <1>3, <1>4, <1>5 DEF EvidenceInv

(* The owner or a reviewer writes an item.                                   *)
LEMMA ItemWritten ==
  ASSUME EvidenceInv, NEW i \in Item, Current(i), NEW new \in ItemRec,
         item' = [item EXCEPT ![i] = new], new.kind = item[i].kind, new.key = item[i].key,
         new.archived => OwnersTurn,
         Numbered(i), efile' \in [EFile -> EFileRec], UploadInv',
         \A j \in Item \ {i} : ActiveFiles(j)' = ActiveFiles(j),
         new.review # "unreviewed" => new.described = [text |-> new.text, files |-> ActiveFiles(i)']
  PROVE  EvidenceInv' /\ (ActiveCv' # ActiveCv => UNCHANGED submission)
<1>0. item[i] \in ItemRec /\ item[i].archived = FALSE
  BY DEF EvidenceInv, EvidenceRows, Current, Submitted, ItemRec
<1>1. /\ page' \in [Page -> PageRec] /\ submission' \in [Submission -> SubmissionRec]
      /\ \A p \in Page : page'[p] # NoPage =>
           /\ page[p] # NoPage /\ page'[p].of = page[p].of
           /\ page'[p].fresh => page'[p] = page[p] /\ page[p].of # i
      /\ \A s \in Submission :
           /\ submission'[s].stage = submission[s].stage
           /\ submission[s].stage = "locked" =>
                submission'[s].kind = submission[s].kind /\ submission'[s].old = submission[s].old
  BY NumberedPages DEF EvidenceInv
<1>2. EvidenceRows'
  BY <1>1 DEF EvidenceInv, EvidenceRows
<1>3. /\ item'[i] = new /\ \A j \in Item \ {i} : item'[j] = item[j]
      /\ \A j \in Item : Submitted(j)' <=> Submitted(j)
  <2>1. new # NoItem /\ item[i] # NoItem
    BY <1>0, NoItemIsNone
  <2>2. QED
    BY <2>1 DEF EvidenceInv, EvidenceRows, Submitted
<1>4. PageInv'
  <2>1. ASSUME NEW p \in Page, page'[p] # NoPage
        PROVE  /\ Submitted(page[p].of)'
               /\ page'[p].fresh => page'[p].text = item'[page'[p].of].text
               /\ page'[p].fresh /\ page'[p].stage = "shown" => page'[p].files = ActiveFiles(page[p].of)'
    <3>1. page[p] # NoPage /\ page'[p].of = page[p].of /\ page[p].of \in Item
      BY <1>1, <2>1 DEF EvidenceInv, EvidenceRows, PageRec, OpenPage
    <3>2. PICK j \in Item : j = page[p].of
      BY <3>1
    <3>3. Submitted(j)'
      BY <1>3, <3>1, <3>2 DEF EvidenceInv, PageInv
    <3>4. ASSUME page'[p].fresh
          PROVE  page'[p].text = item'[j].text /\ (page'[p].stage = "shown" => page'[p].files = ActiveFiles(j)')
      <4>1. page'[p] = page[p] /\ j # i
        BY <1>1, <2>1, <3>2, <3>4
      <4>2. page[p].text = item[j].text /\ (page[p].stage = "shown" => page[p].files = ActiveFiles(j))
        BY <3>1, <3>2, <3>4, <4>1 DEF EvidenceInv, PageInv
      <4>3. item'[j] = item[j] /\ ActiveFiles(j)' = ActiveFiles(j)
        BY <1>3, <4>1
      <4>4. QED
        BY <4>1, <4>2, <4>3
    <3>5. QED
      BY <3>1, <3>2, <3>3, <3>4
  <2>2. QED
    BY <2>1 DEF PageInv
<1>5. ReviewDescribesContent'
  <2>1. ASSUME NEW j \in Item, Submitted(j)', item'[j].review # "unreviewed" PROVE item'[j].described = ContentOf(j)'
    <3>1. CASE j = i
      BY <1>3, <2>1, <3>1 DEF ContentOf
    <3>2. CASE j # i
      BY <1>3, <2>1, <3>2 DEF EvidenceInv, ReviewDescribesContent, ContentOf
    <3>3. QED
      BY <3>1, <3>2
  <2>2. QED
    BY <2>1 DEF ReviewDescribesContent
<1>6. ActiveCv' = IF new.archived THEN ActiveCv \ {i} ELSE ActiveCv
  <2>1. \A j \in Item \ {i} : j \in ActiveCv' <=> j \in ActiveCv
    BY <1>3 DEF ActiveCv, Current
  <2>2. i \in ActiveCv <=> item[i].kind = "cv"
    BY <1>0 DEF ActiveCv, Current
  <2>3. i \in ActiveCv' <=> item[i].kind = "cv" /\ ~new.archived
    BY <1>3 DEF ActiveCv, Current
  <2>4. ActiveCv \subseteq Item /\ ActiveCv' \subseteq Item
    BY DEF ActiveCv
  <2>5. QED
    BY <2>1, <2>2, <2>3, <2>4
<1>7. OneCv' /\ OneItemPerKey'
  <2>1. OneCv'
    BY <1>6 DEF EvidenceInv, OneCv
  <2>2. \A j \in Item : item'[j].key = item[j].key
    BY <1>3
  <2>3. OneItemPerKey'
    BY <1>3, <2>2 DEF EvidenceInv, OneItemPerKey
  <2>4. QED
    BY <2>1, <2>3
<1>8. OwnersTurn \/ ActiveCv' = ActiveCv
  BY <1>6
<1>9. LockedInv'
  BY <1>1, <1>8 DEF EvidenceInv, LockedInv, OwnersTurn
<1>10. OwnersTurn => submission' = submission
  BY DEF OwnersTurn, Numbered, EvidenceInv, EvidenceRows
<1>11. QED
  BY <1>2, <1>4, <1>5, <1>7, <1>8, <1>9, <1>10 DEF EvidenceInv

(* What a step of evidence promises: to the store, at most one file appears  *)
(* or loses its content; and the owner keeps a CV.                           *)
EvidenceReadable == {f \in EvidenceListed : efile[f].object}
EvidenceAnswered == {f \in EvidenceListed : efile[f].answered}
StoreStep == [EvidenceStore!Next]_<<EvidenceListed, EvidenceReadable, EvidenceAnswered>>
CvStays == ActiveCv # {} /\ ActiveCv' = {} => UNCHANGED submission
EvidencePromise == EvidenceInv' /\ StoreStep /\ CvStays

LEMMA StoreStays ==
  ASSUME \A f \in EFile : /\ efile'[f].row = "none" <=> efile[f].row = "none"
                          /\ efile'[f].object = efile[f].object /\ efile'[f].answered = efile[f].answered
  PROVE  StoreStep
  BY DEF StoreStep, EvidenceListed, EvidenceReadable, EvidenceAnswered

LEMMA OneFileMoves ==
  ASSUME NEW f \in EFile,
         \A g \in EFile : g # f =>
           /\ efile'[g].row = "none" <=> efile[g].row = "none"
           /\ efile'[g].object = efile[g].object
           /\ efile'[g].answered = efile[g].answered,
         \/ /\ efile[f].row = "none" /\ efile'[f].row = "none"
         \/ /\ efile[f].row = "none" /\ efile'[f].row # "none"
            /\ efile'[f].answered => efile'[f].object
         \/ /\ efile[f].row # "none" /\ efile'[f].row # "none" /\ efile'[f].answered = efile[f].answered
            /\ efile'[f].object = efile[f].object \/ (~efile[f].answered /\ ~efile'[f].object)
  PROVE  StoreStep
<1>1. CASE \/ efile[f].row = "none" /\ efile'[f].row = "none"
           \/ /\ efile[f].row # "none" /\ efile'[f].row # "none" /\ efile'[f].answered = efile[f].answered
              /\ efile'[f].object = efile[f].object
  <2>1. EvidenceListed' = EvidenceListed
    BY <1>1 DEF EvidenceListed
  <2>2. EvidenceReadable' = EvidenceReadable /\ EvidenceAnswered' = EvidenceAnswered
    BY <1>1, <2>1 DEF EvidenceReadable, EvidenceAnswered, EvidenceListed
  <2> QED
    BY <2>1, <2>2 DEF StoreStep
<1>2. CASE /\ efile[f].row = "none" /\ efile'[f].row # "none"
           /\ efile'[f].answered => efile'[f].object
  <2>1. f \notin EvidenceListed /\ EvidenceListed' = EvidenceListed \cup {f}
    BY <1>2 DEF EvidenceListed
  <2>2. IF efile'[f].object THEN EvidenceReadable' = EvidenceReadable \cup {f} ELSE EvidenceReadable' = EvidenceReadable
    BY <1>2 DEF EvidenceReadable, EvidenceListed
  <2>3. IF efile'[f].answered THEN EvidenceAnswered' = EvidenceAnswered \cup {f} ELSE EvidenceAnswered' = EvidenceAnswered
    BY <1>2 DEF EvidenceAnswered, EvidenceListed
  <2>4. EvidenceStore!Add(f)
    BY <1>2, <2>1, <2>2, <2>3 DEF EvidenceStore!Add, EvidenceReadable, EvidenceAnswered
  <2> QED
    BY <2>4 DEF StoreStep, EvidenceStore!Next
<1>3. CASE /\ efile[f].row # "none" /\ efile'[f].row # "none" /\ efile'[f].answered = efile[f].answered
           /\ ~efile[f].answered /\ ~efile'[f].object
  <2>1. /\ EvidenceListed' = EvidenceListed /\ EvidenceAnswered' = EvidenceAnswered
        /\ f \notin EvidenceAnswered /\ f \in EvidenceListed
    BY <1>3 DEF EvidenceListed, EvidenceAnswered
  <2>2. EvidenceReadable' = EvidenceReadable \ {f}
    BY <1>3 DEF EvidenceReadable, EvidenceListed
  <2>3. CASE f \in EvidenceReadable
    <3>1. EvidenceStore!Lose(f)
      BY <2>1, <2>2, <2>3 DEF EvidenceStore!Lose, EvidenceReadable, EvidenceAnswered
    <3> QED
      BY <3>1 DEF StoreStep, EvidenceStore!Next
  <2>4. CASE f \notin EvidenceReadable
    BY <2>1, <2>2, <2>4 DEF StoreStep
  <2> QED
    BY <2>3, <2>4
<1> QED
  BY <1>1, <1>2, <1>3

(* A step that moves submissions only. *)
LEMMA SubmissionMoved ==
  ASSUME EvidenceInv, UNCHANGED <<item, efile, page>>, submission' \in [Submission -> SubmissionRec], LockedInv'
  PROVE  EvidencePromise
<1>1. ActiveCv' = ActiveCv /\ StoreStep
  BY StoreStays DEF ActiveCv, Current, Submitted
<1>2. \A i \in Item : ActiveFiles(i)' = ActiveFiles(i)
  BY DEF ActiveFiles
<1>3. PageInv' /\ ReviewDescribesContent'
  BY <1>2 DEF EvidenceInv, EvidenceRows, PageRec, OpenPage, NoPage, PageInv, ReviewDescribesContent, ContentOf, Submitted
<1>4. UploadInv' /\ OneCv' /\ OneItemPerKey' /\ EvidenceRows'
  BY <1>1 DEF EvidenceInv, EvidenceRows, UploadInv, OneCv, OneItemPerKey, Submitted
<1>5. QED
  BY <1>1, <1>3, <1>4 DEF EvidencePromise, EvidenceInv, CvStays

LEMMA SubmissionSteps ==
  ASSUME EvidenceInv, NEW s \in Submission,
         \/ \E kind \in Kind, key \in SubmissionKey \cup {"no key"} : Submit(s, kind, key)
         \/ LockOwner(s) \/ GiveUp(s)
  PROVE  EvidencePromise
<1>0. submission \in [Submission -> SubmissionRec] /\ LockedInv
  BY DEF EvidenceInv, EvidenceRows
<1>1. ASSUME NEW kind \in Kind, NEW key \in SubmissionKey \cup {"no key"}, Submit(s, kind, key) PROVE EvidencePromise
  <2> DEFINE new == [stage |-> "unknown", kind |-> kind, key |-> key]
  <2>1. new \in SubmissionRec /\ new.stage = "unknown"
    BY DEF SubmissionRec, Keys
  <2>2. submission' = [submission EXCEPT ![s] = new] /\ UNCHANGED <<item, efile, page>>
    BY <1>1 DEF Submit
  <2> HIDE DEF new
  <2>3. submission' \in [Submission -> SubmissionRec] /\ LockedInv'
    BY <1>0, <2>1, <2>2 DEF LockedInv, ActiveCv, Current, Submitted
  <2>4. QED
    BY <2>2, <2>3, SubmissionMoved
<1>2. CASE LockOwner(s)
  <2> DEFINE new == [stage |-> "locked", kind |-> submission[s].kind, key |-> submission[s].key, fresh |-> TRUE,
                     old |-> IF submission[s].kind = "cv" THEN ActiveCv ELSE {}]
  <2>1. submission[s].kind \in Kind /\ submission[s].key \in Keys
    BY <1>0, <1>2 DEF LockOwner, SubmissionRec, NoSubmission
  <2>2. /\ new \in SubmissionRec /\ new.stage = "locked" /\ new.kind = submission[s].kind
        /\ new.old = IF submission[s].kind = "cv" THEN ActiveCv ELSE {}
    BY <2>1 DEF SubmissionRec, Keys, ActiveCv
  <2>3. /\ submission' = [submission EXCEPT ![s] = new] /\ UNCHANGED <<item, efile, page>>
        /\ \A o \in Submission : submission[o].stage # "locked"
    BY <1>2 DEF LockOwner, OwnersTurn
  <2> HIDE DEF new
  <2>4. submission' \in [Submission -> SubmissionRec] /\ LockedInv'
    BY <1>0, <2>2, <2>3 DEF LockedInv, ActiveCv, Current, Submitted
  <2>5. QED
    BY <2>3, <2>4, SubmissionMoved
<1>3. CASE GiveUp(s)
  <2>1. submission' = [submission EXCEPT ![s] = NoSubmission] /\ UNCHANGED <<item, efile, page>>
    BY <1>3 DEF GiveUp
  <2>2. NoSubmission \in SubmissionRec /\ NoSubmission.stage # "locked"
    BY DEF SubmissionRec, NoSubmission
  <2>3. submission' \in [Submission -> SubmissionRec] /\ LockedInv'
    BY <1>0, <2>1, <2>2 DEF LockedInv, ActiveCv, Current, Submitted
  <2>4. QED
    BY <2>1, <2>3, SubmissionMoved
<1>4. QED
  BY <1>1, <1>2, <1>3

(* A step that moves one reviewer's page only. *)
LEMMA PageMoved ==
  ASSUME EvidenceInv, UNCHANGED <<item, efile, submission>>, NEW p \in Page, NEW new \in PageRec,
         page' = [page EXCEPT ![p] = new],
         new # NoPage => /\ Submitted(new.of)
                         /\ new.fresh => new.text = item[new.of].text
                         /\ new.fresh /\ new.stage = "shown" => new.files = ActiveFiles(new.of)
  PROVE  EvidencePromise
<1>1. ActiveCv' = ActiveCv /\ StoreStep
  BY StoreStays DEF ActiveCv, Current, Submitted
<1>2. \A i : ActiveFiles(i)' = ActiveFiles(i)
  BY DEF ActiveFiles
<1>3. page' \in [Page -> PageRec] /\ page'[p] = new /\ \A q \in Page \ {p} : page'[q] = page[q]
  BY DEF EvidenceInv, EvidenceRows
<1>4. PageInv'
  BY <1>2, <1>3 DEF EvidenceInv, PageInv, Submitted
<1>5. ReviewDescribesContent'
  BY <1>2 DEF EvidenceInv, ReviewDescribesContent, ContentOf, Submitted
<1>6. UploadInv' /\ OneCv' /\ OneItemPerKey' /\ LockedInv' /\ EvidenceRows'
  <2>1. UploadInv'
    BY DEF EvidenceInv, UploadInv
  <2>2. OneItemPerKey'
    BY DEF EvidenceInv, OneItemPerKey, Submitted
  <2>3. EvidenceRows'
    BY <1>3 DEF EvidenceInv, EvidenceRows
  <2>4. OneCv' /\ LockedInv'
    BY <1>1 DEF EvidenceInv, OneCv, LockedInv
  <2>5. QED
    BY <2>1, <2>2, <2>3, <2>4
<1>7. QED
  BY <1>1, <1>4, <1>5, <1>6 DEF EvidencePromise, EvidenceInv, CvStays

LEMMA PageSteps ==
  ASSUME EvidenceInv, NEW p \in Page, (\E i \in Item : ReadRows(p, i)) \/ ReadFiles(p) \/ ClosePage(p)
  PROVE  EvidencePromise
<1>1. ASSUME NEW i \in Item, ReadRows(p, i) PROVE EvidencePromise
  <2> DEFINE new == [stage |-> "rows", of |-> i, text |-> item[i].text, files |-> {}, fresh |-> TRUE]
  <2>1. item[i] \in ItemRec
    BY <1>1 DEF ReadRows, Current, Submitted, EvidenceInv, EvidenceRows
  <2>2. new \in PageRec /\ new.text = item[new.of].text /\ new.stage # "shown" /\ Submitted(new.of)
    BY <1>1, <2>1 DEF ReadRows, Current, PageRec, OpenPage, ItemRec
  <2>3. page' = [page EXCEPT ![p] = new] /\ UNCHANGED <<item, efile, submission>>
    BY <1>1 DEF ReadRows
  <2> HIDE DEF new
  <2>4. QED
    BY <2>2, <2>3, PageMoved
<1>2. CASE ReadFiles(p)
  <2> DEFINE new == [page[p] EXCEPT !.stage = "shown", !.files = ActiveFiles(page[p].of)]
  <2>1. page[p] \in OpenPage
    BY <1>2 DEF ReadFiles, EvidenceInv, EvidenceRows, PageRec, NoPage
  <2>2. ActiveFiles(page[p].of) \subseteq EFile
    BY DEF ActiveFiles
  <2>3. /\ new \in OpenPage /\ new.fresh = page[p].fresh /\ new.text = page[p].text
        /\ new.of = page[p].of /\ new.files = ActiveFiles(page[p].of)
    BY <2>1, <2>2 DEF OpenPage
  <2>4. page[p] # NoPage => Submitted(page[p].of) /\ (page[p].fresh => page[p].text = item[page[p].of].text)
    BY DEF EvidenceInv, PageInv
  <2>5. page[p] # NoPage
    BY <2>1 DEF OpenPage, NoPage
  <2>6. page' = [page EXCEPT ![p] = new] /\ UNCHANGED <<item, efile, submission>>
    BY <1>2 DEF ReadFiles
  <2> HIDE DEF new
  <2>7. QED
    BY <2>3, <2>4, <2>5, <2>6, PageMoved DEF PageRec
<1>3. CASE ClosePage(p)
  <2>1. NoPage \in PageRec
    BY DEF PageRec
  <2>2. page' = [page EXCEPT ![p] = NoPage] /\ UNCHANGED <<item, efile, submission>>
    BY <1>3 DEF ClosePage
  <2>3. QED
    BY <2>1, <2>2, PageMoved
<1>4. QED
  BY <1>1, <1>2, <1>3

LEMMA UploadSteps ==
  ASSUME EvidenceInv, NEW f \in EFile,
         (\E i \in Item : CheckFile(f, i)) \/ PutFile(f) \/ LoseCommit(f) \/ RemoveFile(f) \/ AbandonFile(f)
  PROVE  EvidencePromise
<1>0. efile \in [EFile -> EFileRec] /\ efile[f] \in EFileRec /\ UploadInv
  BY DEF EvidenceInv, EvidenceRows
<1>1. SUFFICES ASSUME NEW new \in EFileRec, efile' = [efile EXCEPT ![f] = new],
                      new.row = efile[f].row,
                      new.of = efile[f].of \/ new.row = "none",
                      UploadOK(new),
                      new.row = "none" \/ (new.answered = efile[f].answered
                        /\ (new.object = efile[f].object \/ (~efile[f].answered /\ ~new.object))),
                      \A g \in new.replaces : efile[g].row # "none" /\ efile[g].of = new.of,
                      UNCHANGED <<item, submission, page>>
               PROVE  EvidencePromise
  <2>1. ASSUME NEW i \in Item, CheckFile(f, i) PROVE EvidencePromise
    <3>1. PICK replaced \in {{}} \cup {{g} : g \in ActiveFiles(i)} :
            efile' = [efile EXCEPT ![f] = [NoEFile EXCEPT !.of = i, !.upload = "checked", !.replaces = replaced, !.fresh = TRUE]]
      BY <2>1 DEF CheckFile
    <3> DEFINE new == [NoEFile EXCEPT !.of = i, !.upload = "checked", !.replaces = replaced, !.fresh = TRUE]
    <3>2. efile[f].row = "none" /\ UNCHANGED <<item, submission, page>>
      <4>1. efile[f] = NoEFile /\ UNCHANGED <<item, submission, page>>
        BY <2>1 DEF CheckFile
      <4>2. NoEFile.row = "none"
        BY DEF NoEFile
      <4>3. QED
        BY <4>1, <4>2
    <3>3. replaced \subseteq EFile /\ \A g \in replaced : efile[g].row = "active" /\ efile[g].of = i
      BY DEF ActiveFiles
    <3>4. /\ new \in EFileRec /\ new.row = "none" /\ new.of = i /\ new.replaces = replaced
          /\ UploadOK(new)
      <4>1. NoEFile \in EFileRec /\ NoEFile.row = "none" /\ NoEFile.answered = FALSE
        BY DEF NoEFile, EFileRec
      <4>2. /\ new \in EFileRec /\ new.row = "none" /\ new.of = i /\ new.replaces = replaced
            /\ new.upload = "checked" /\ new.answered = FALSE
        BY <3>3, <4>1 DEF EFileRec
      <4> HIDE DEF new
      <4>3. QED
        BY <4>2 DEF UploadOK
    <3> HIDE DEF new
    <3>6. efile' = [efile EXCEPT ![f] = new]
      BY <3>1 DEF new
    <3>7. QED
      BY <1>1, <3>2, <3>3, <3>4, <3>6
  <2>2. \A g \in efile[f].replaces : efile[g].row # "none" /\ efile[g].of = efile[f].of
    BY <1>0 DEF UploadInv
  <2>3. UploadOK(efile[f])
    BY <1>0 DEF UploadInv
  <2>4. CASE PutFile(f)
    <3> DEFINE new == [efile[f] EXCEPT !.upload = "stored", !.object = TRUE]
    <3>1. /\ new \in EFileRec /\ new.row = efile[f].row /\ new.of = efile[f].of /\ new.upload = "stored"
          /\ new.object /\ new.replaces = efile[f].replaces /\ new.answered = efile[f].answered
      BY <1>0 DEF EFileRec
    <3>2. efile' = [efile EXCEPT ![f] = new] /\ efile[f].upload = "checked" /\ UNCHANGED <<item, submission, page>>
      BY <2>4 DEF PutFile
    <3> HIDE DEF new
    <3>3. efile[f].row = "none" /\ UploadOK(new)
      BY <2>3, <3>1, <3>2 DEF UploadOK
    <3>4. QED
      BY <1>1, <2>2, <3>1, <3>2, <3>3
  <2>5. CASE LoseCommit(f)
    <3> DEFINE new == [efile[f] EXCEPT !.upload = "unsure"]
    <3>1. /\ new \in EFileRec /\ new.row = efile[f].row /\ new.of = efile[f].of /\ new.upload = "unsure"
          /\ new.object = efile[f].object /\ new.replaces = efile[f].replaces /\ new.answered = efile[f].answered
      BY <1>0 DEF EFileRec
    <3>2. efile' = [efile EXCEPT ![f] = new] /\ efile[f].upload = "stored" /\ UNCHANGED <<item, submission, page>>
      BY <2>5 DEF LoseCommit
    <3> HIDE DEF new
    <3>3. UploadOK(new)
      BY <2>3, <3>1, <3>2 DEF UploadOK
    <3>4. QED
      BY <1>1, <2>2, <3>1, <3>2, <3>3
  <2>6. CASE RemoveFile(f)
    <3> DEFINE after == IF efile[f].upload = "unsure" /\ efile[f].row = "none" THEN "removed" ELSE "none"
               new == [efile[f] EXCEPT !.upload = after, !.object = FALSE]
    <3>1. /\ new \in EFileRec /\ new.row = efile[f].row /\ new.of = efile[f].of /\ new.upload = after
          /\ ~new.object /\ new.replaces = efile[f].replaces /\ new.answered = efile[f].answered
      <4>1. after \in {"none", "removed"}
        OBVIOUS
      <4> HIDE DEF after
      <4> QED
        BY <1>0, <4>1 DEF EFileRec
    <3>2. efile' = [efile EXCEPT ![f] = new] /\ UNCHANGED <<item, submission, page>>
      BY <1>0, <2>6 DEF RemoveFile, EFileRec
    <3>3. efile[f].upload \in {"stored", "unsure"}
      BY <2>6 DEF RemoveFile, Discarded
    <3> HIDE DEF new
    <3>4. UploadOK(new) /\ ~efile[f].answered
      BY <2>3, <3>1, <3>3 DEF UploadOK
    <3>5. QED
      BY <1>1, <2>2, <3>1, <3>2, <3>4
  <2>7. CASE AbandonFile(f)
    <3> DEFINE new == [efile[f] EXCEPT !.upload = "none"]
    <3>1. /\ new \in EFileRec /\ new.row = efile[f].row /\ new.of = efile[f].of /\ new.upload = "none"
          /\ new.object = efile[f].object /\ new.replaces = efile[f].replaces /\ new.answered = efile[f].answered
      BY <1>0 DEF EFileRec
    <3>2. efile' = [efile EXCEPT ![f] = new] /\ UNCHANGED <<item, submission, page>>
      BY <2>7 DEF AbandonFile
    <3> HIDE DEF new
    <3>3. UploadOK(new)
      BY <2>3, <3>1 DEF UploadOK
    <3>4. QED
      BY <1>1, <2>2, <3>1, <3>2, <3>3
  <2>8. QED
    BY <2>1, <2>4, <2>5, <2>6, <2>7
<1>2. efile'[f] = new /\ \A g \in EFile \ {f} : efile'[g] = efile[g]
  BY <1>0, <1>1
<1>3. efile' \in [EFile -> EFileRec]
  BY <1>0, <1>1
<1>4. \A g \in EFile : (efile'[g].row = efile[g].row /\ efile'[g].of = efile[g].of)
                       \/ (efile'[g].row = "none" /\ efile[g].row = "none")
  BY <1>1, <1>2
<1>5. UploadInv'
  <2>1. ASSUME NEW h \in EFile
        PROVE  /\ UploadOK(efile'[h])
               /\ \A g \in efile'[h].replaces : efile'[g].row # "none" /\ efile'[g].of = efile'[h].of
    <3>1. CASE h = f
      <4>1. new.replaces \subseteq EFile
        BY DEF EFileRec
      <4>2. QED
        BY <1>1, <1>2, <1>4, <3>1, <4>1
    <3>2. CASE h # f
      <4>1. efile'[h] = efile[h] /\ efile[h] \in EFileRec
        BY <1>0, <1>2, <3>2
      <4>2. \A g \in efile[h].replaces : g \in EFile /\ efile[g].row # "none" /\ efile[g].of = efile[h].of
        BY <1>0, <4>1 DEF UploadInv, EFileRec
      <4>3. \A g \in EFile : efile[g].row # "none" => efile'[g].row # "none" /\ efile'[g].of = efile[g].of
        BY <1>4
      <4>4. QED
        BY <1>0, <4>1, <4>2, <4>3 DEF UploadInv
    <3>3. QED
      BY <3>1, <3>2
  <2>2. QED
    BY <2>1 DEF UploadInv
<1>6. EvidenceInv'
  BY <1>1, <1>3, <1>4, <1>5, FilesMoved
<1>9. StoreStep
  BY <1>1, <1>2, OneFileMoves
<1>7. ActiveCv' = ActiveCv
  BY <1>1 DEF ActiveCv, Current, Submitted
<1>8. QED
  BY <1>6, <1>7, <1>9 DEF EvidencePromise, CvStays

(* The owner's changes and a review: the files of the item stay as they are. *)
LEMMA DatedOnly ==
  ASSUME EvidenceInv, NEW i \in Item, efile' = Dated(efile, i)
  PROVE  /\ efile' \in [EFile -> EFileRec] /\ UploadInv'
         /\ \A j : ActiveFiles(j)' = ActiveFiles(j)
         /\ StoreStep
<1>1. /\ efile' \in [EFile -> EFileRec]
      /\ \A f \in EFile : /\ efile'[f].row = efile[f].row /\ efile'[f].of = efile[f].of
                          /\ efile'[f].object = efile[f].object /\ efile'[f].upload = efile[f].upload
                          /\ efile'[f].replaces = efile[f].replaces /\ efile'[f].answered = efile[f].answered
  BY DatedFiles DEF EvidenceInv, EvidenceRows
<1>2. UploadInv'
  <2>1. \A f \in EFile : efile[f].replaces \subseteq EFile
    BY DEF EvidenceInv, EvidenceRows, EFileRec
  <2>2. QED
    BY <1>1, <2>1 DEF EvidenceInv, UploadInv, UploadOK
<1>3. StoreStep
  BY <1>1, StoreStays
<1>4. QED
  BY <1>1, <1>2, <1>3, SameRows

LEMMA OwnerSteps ==
  ASSUME EvidenceInv, NEW i \in Item, Update(i) \/ Archive(i)
  PROVE  EvidencePromise
<1>0. item[i] \in ItemRec /\ Current(i) /\ OwnersTurn /\ Numbered(i) /\ efile' = Dated(efile, i)
  BY DEF Update, Archive, Current, Submitted, EvidenceInv, EvidenceRows
<1>1. /\ efile' \in [EFile -> EFileRec] /\ UploadInv'
      /\ \A j : ActiveFiles(j)' = ActiveFiles(j)
      /\ StoreStep
  BY <1>0, DatedOnly
<1>2. SUFFICES ASSUME NEW new \in ItemRec, item' = [item EXCEPT ![i] = new],
                      new.kind = item[i].kind, new.key = item[i].key,
                      new.review # "unreviewed" => new.described = [text |-> new.text, files |-> ActiveFiles(i)]
               PROVE  EvidencePromise
  <2>1. CASE Update(i)
    <3> DEFINE new == [Unreviewed(item[i]) EXCEPT !.text = @ + 1]
    <3>1. item[i].text + 1 \in 0..MaxText
      <4>1. item[i].text \in 0..MaxText
        BY <1>0 DEF ItemRec
      <4>2. item[i].text < MaxText
        BY <2>1 DEF Update
      <4>3. QED
        BY <4>1, <4>2, EvidenceAssumption
    <3>2. Nothing \in Content
      BY EvidenceAssumption DEF Nothing, Content
    <3>3. /\ Unreviewed(item[i]) \in ItemRec /\ Unreviewed(item[i]).kind = item[i].kind
          /\ Unreviewed(item[i]).key = item[i].key /\ Unreviewed(item[i]).text = item[i].text
          /\ Unreviewed(item[i]).review = "unreviewed"
      BY <1>0, <3>2 DEF Unreviewed, ItemRec, ReviewState
    <3>4. /\ new \in ItemRec /\ new.kind = item[i].kind /\ new.key = item[i].key
          /\ new.review = "unreviewed"
      BY <3>1, <3>3 DEF ItemRec
    <3>5. item' = [item EXCEPT ![i] = new]
      BY <2>1 DEF Update
    <3> HIDE DEF new
    <3>6. QED
      BY <1>2, <3>4, <3>5
  <2>2. CASE Archive(i)
    <3> DEFINE new == [item[i] EXCEPT !.archived = TRUE]
    <3>1. /\ new \in ItemRec /\ new.kind = item[i].kind /\ new.key = item[i].key /\ new.text = item[i].text
          /\ new.review = item[i].review /\ new.described = item[i].described
      BY <1>0 DEF ItemRec
    <3>2. item[i].review # "unreviewed" => item[i].described = [text |-> item[i].text, files |-> ActiveFiles(i)]
      BY <1>0 DEF EvidenceInv, ReviewDescribesContent, ContentOf, Current
    <3>3. item' = [item EXCEPT ![i] = new]
      BY <2>2 DEF Archive
    <3> HIDE DEF new
    <3>4. QED
      BY <1>2, <3>1, <3>2, <3>3
  <2>3. QED
    BY <2>1, <2>2
<1>3. new.review # "unreviewed" => new.described = [text |-> new.text, files |-> ActiveFiles(i)']
  BY <1>1, <1>2
<1>4. EvidenceInv' /\ (ActiveCv' # ActiveCv => UNCHANGED submission)
  BY <1>0, <1>1, <1>2, <1>3, ItemWritten
<1>5. QED
  BY <1>1, <1>4 DEF EvidencePromise, CvStays

LEMMA ReviewSteps ==
  ASSUME EvidenceInv, NEW p \in Page, NEW state \in ReviewState, Review(p, state)
  PROVE  EvidencePromise
<1>0. page[p] \in OpenPage
  BY DEF Review, EvidenceInv, EvidenceRows, PageRec, NoPage
<1> PICK i \in Item : i = page[p].of
  BY <1>0 DEF OpenPage
<1>1. /\ page[p].fresh /\ page[p].stage = "shown" /\ page[p] # NoPage
      /\ Current(i) /\ Numbered(i) /\ efile' = Dated(efile, i)
  BY <1>0 DEF Review, OpenPage, NoPage
<1>2. item[i] \in ItemRec
  BY <1>1 DEF Current, Submitted, EvidenceInv, EvidenceRows
<1>3. /\ efile' \in [EFile -> EFileRec] /\ UploadInv'
      /\ \A j : ActiveFiles(j)' = ActiveFiles(j)
      /\ StoreStep
  BY <1>1, <1>2, DatedOnly
<1> DEFINE seen == IF state = "unreviewed" THEN Nothing ELSE [text |-> page[p].text, files |-> page[p].files]
<1>4. seen \in Content /\ (state # "unreviewed" => seen = [text |-> item[i].text, files |-> ActiveFiles(i)])
  <2>1. Nothing \in Content /\ [text |-> page[p].text, files |-> page[p].files] \in Content
    BY <1>0, EvidenceAssumption DEF Nothing, Content, OpenPage
  <2>2. page[p].text = item[i].text /\ page[p].files = ActiveFiles(i)
    BY <1>1 DEF EvidenceInv, PageInv
  <2>3. QED
    BY <2>1, <2>2
<1> DEFINE new == [item[i] EXCEPT !.review = state, !.described = seen]
<1>5. item' = [item EXCEPT ![i] = new]
  BY DEF Review
<1> HIDE DEF seen
<1>6. /\ new \in ItemRec /\ new.kind = item[i].kind /\ new.key = item[i].key /\ new.text = item[i].text
      /\ new.review = state /\ new.described = seen /\ new.archived = item[i].archived
  BY <1>2, <1>4 DEF ItemRec
<1>7. item[i].archived = FALSE
  BY <1>1, <1>2 DEF Current, ItemRec
<1> HIDE DEF new
<1>8. EvidenceInv' /\ (ActiveCv' # ActiveCv => UNCHANGED submission)
  <2>1. new.archived => OwnersTurn
    BY <1>6, <1>7
  <2>2. new.review # "unreviewed" => new.described = [text |-> new.text, files |-> ActiveFiles(i)']
    BY <1>3, <1>4, <1>6
  <2>3. QED
    BY <1>1, <1>2, <1>3, <1>5, <1>6, <2>1, <2>2, ItemWritten
<1>9. QED
  BY <1>3, <1>8 DEF EvidencePromise, CvStays

(* A file is listed with its object, and the files it replaces are archived. *)
LEMMA AttachSteps ==
  ASSUME EvidenceInv, NEW f \in EFile, AttachFile(f)
  PROVE  EvidencePromise
<1>0. /\ efile[f].upload \in {"stored", "unsure", "removed"} /\ efile[f] \in EFileRec /\ efile[f].row = "none"
      /\ efile[f].upload = "stored" => efile[f].object
      /\ \A g \in EFile : efile[g] \in EFileRec
      /\ UploadInv /\ OwnersTurn
  BY DEF AttachFile, EvidenceInv, EvidenceRows, UploadInv, UploadOK
<1> PICK i \in Item : i = efile[f].of
  BY <1>0 DEF UploadInv, UploadOK
<1>1. Current(i) /\ Numbered(i) /\ item' = [item EXCEPT ![i] = Unreviewed(item[i])]
  BY DEF AttachFile
<1>2. Replaced(f) \subseteq EFile /\ \A g \in Replaced(f) : efile[g].row # "none" /\ efile[g].of = i
  BY <1>0 DEF Replaced, UploadInv, ActiveFiles, EFileRec
<1> DEFINE archived == [g \in EFile |-> IF g \in Replaced(f) THEN [efile[g] EXCEPT !.row = "archived"] ELSE efile[g]]
           answered == efile[f].upload = "stored"
           upload == IF efile[f].upload = "unsure" THEN efile[f].upload ELSE "none"
           new == [archived[f] EXCEPT !.row = "active", !.replaces = {}, !.answered = answered, !.upload = upload]
           attached == [archived EXCEPT ![f] = new]
<1>3. ASSUME NEW g \in EFile \ {f}
      PROVE  /\ attached[g] \in EFileRec /\ attached[g].of = efile[g].of /\ attached[g].object = efile[g].object
             /\ attached[g].upload = efile[g].upload /\ attached[g].replaces = efile[g].replaces
             /\ attached[g].answered = efile[g].answered
             /\ attached[g].row = IF g \in Replaced(f) THEN "archived" ELSE efile[g].row
  <2> DEFINE hidden == [efile[g] EXCEPT !.row = "archived"]
  <2>1. /\ hidden \in EFileRec /\ hidden.of = efile[g].of /\ hidden.object = efile[g].object
        /\ hidden.upload = efile[g].upload /\ hidden.replaces = efile[g].replaces /\ hidden.row = "archived"
        /\ hidden.answered = efile[g].answered
    BY <1>0 DEF EFileRec
  <2>2. attached[g] = IF g \in Replaced(f) THEN hidden ELSE efile[g]
    OBVIOUS
  <2> HIDE DEF hidden, attached
  <2>3. QED
    BY <1>0, <2>1, <2>2
<1>4. /\ attached[f] \in EFileRec /\ attached[f].of = i /\ attached[f].object = efile[f].object
      /\ attached[f].upload = upload /\ attached[f].answered = answered
      /\ attached[f].replaces = {} /\ attached[f].row = "active"
  <2>1. archived[f] = efile[f]
    BY <1>0, <1>2
  <2>2. attached[f] = [efile[f] EXCEPT !.row = "active", !.replaces = {}, !.answered = answered, !.upload = upload]
    BY <2>1
  <2>3. answered \in BOOLEAN /\ upload \in {"none", "unsure"}
    OBVIOUS
  <2> HIDE DEF attached, archived, answered, upload
  <2>4. QED
    BY <1>0, <2>2, <2>3 DEF EFileRec
<1>5. efile' = Dated(attached, i)
  BY DEF AttachFile
<1>6. attached \in [EFile -> EFileRec]
  <2>1. DOMAIN attached = EFile /\ attached = [g \in EFile |-> attached[g]]
    OBVIOUS
  <2> HIDE DEF attached
  <2>2. QED
    BY <1>3, <1>4, <2>1
<1> HIDE DEF attached, new, archived
<1>7. /\ efile' \in [EFile -> EFileRec]
      /\ \A g \in EFile : /\ efile'[g].row = attached[g].row /\ efile'[g].of = attached[g].of
                          /\ efile'[g].object = attached[g].object /\ efile'[g].upload = attached[g].upload
                          /\ efile'[g].replaces = attached[g].replaces /\ efile'[g].answered = attached[g].answered
  BY <1>5, <1>6, DatedFiles
<1>8. /\ \A g \in EFile \ {f} :
           /\ efile'[g].of = efile[g].of /\ efile'[g].object = efile[g].object
           /\ efile'[g].upload = efile[g].upload /\ efile'[g].replaces = efile[g].replaces
           /\ efile'[g].answered = efile[g].answered
           /\ efile'[g].row = IF g \in Replaced(f) THEN "archived" ELSE efile[g].row
      /\ efile'[f].of = i /\ efile'[f].object = efile[f].object /\ efile'[f].upload = upload
      /\ efile'[f].answered = answered /\ efile'[f].replaces = {} /\ efile'[f].row = "active"
  BY <1>3, <1>4, <1>7
<1>9. UploadInv'
  <2>1. ASSUME NEW h \in EFile \ {f}
        PROVE  /\ UploadOK(efile'[h])
               /\ \A g \in efile'[h].replaces : efile'[g].row # "none" /\ efile'[g].of = efile'[h].of
    <3>1. UploadOK(efile[h]) /\ (h \in Replaced(f) => efile[h].row # "none")
      BY <1>0, <1>2 DEF UploadInv
    <3>2. UploadOK(efile'[h])
      BY <1>8, <3>1 DEF UploadOK
    <3>3. \A g \in efile[h].replaces : g \in EFile \ {f} /\ efile[g].row # "none" /\ efile[g].of = efile[h].of
      BY <1>0 DEF UploadInv, EFileRec
    <3>4. QED
      BY <1>0, <1>8, <3>1, <3>2, <3>3 DEF UploadInv
  <2>2. UploadOK(efile'[f])
    BY <1>0, <1>8 DEF UploadOK
  <2>3. QED
    BY <1>8, <2>1, <2>2 DEF UploadInv
<1>10. \A j \in Item \ {i} : ActiveFiles(j)' = ActiveFiles(j)
  BY <1>0, <1>2, <1>8 DEF ActiveFiles
<1>11. StoreStep
  <2>1. \A g \in EFile : g # f =>
          /\ efile'[g].row = "none" <=> efile[g].row = "none"
          /\ efile'[g].object = efile[g].object
          /\ efile'[g].answered = efile[g].answered
    BY <1>2, <1>8
  <2>2. efile'[f].row # "none" /\ (efile'[f].answered => efile'[f].object)
    BY <1>0, <1>8
  <2>3. QED
    BY <1>0, <2>1, <2>2, OneFileMoves
<1>12. /\ Unreviewed(item[i]) \in ItemRec /\ Unreviewed(item[i]).kind = item[i].kind
       /\ Unreviewed(item[i]).key = item[i].key /\ Unreviewed(item[i]).review = "unreviewed"
  <2>1. item[i] \in ItemRec
    BY <1>1 DEF Current, Submitted, EvidenceInv, EvidenceRows
  <2>2. Nothing \in Content
    BY EvidenceAssumption DEF Nothing, Content
  <2>3. QED
    BY <2>1, <2>2 DEF Unreviewed, ItemRec, ReviewState
<1>13. EvidenceInv' /\ (ActiveCv' # ActiveCv => UNCHANGED submission)
  BY <1>0, <1>1, <1>7, <1>9, <1>10, <1>12, ItemWritten
<1>14. QED
  BY <1>11, <1>13 DEF EvidencePromise, CvStays

(* A new item takes the place of the CV there was, if it is one.             *)
LEMMA CreateSteps ==
  ASSUME EvidenceInv, NEW s \in Submission, NEW i \in Item, Create(s, i)
  PROVE  EvidencePromise
<1>0. PICK kind \in Kind, key \in Keys, old \in SUBSET Item :
        /\ submission[s].stage = "locked" /\ submission[s].fresh
        /\ kind = submission[s].kind /\ key = submission[s].key /\ old = submission[s].old
        /\ old = IF kind = "cv" THEN ActiveCv ELSE {}
        /\ key # "no key" => \A j \in Item : Submitted(j) => item[j].key # key
        /\ ~Submitted(i)
  <2>1. submission[s].stage = "locked" /\ UniqueIndexes(s) /\ ~Submitted(i)
    BY DEF Create
  <2>2. submission[s].kind \in Kind /\ submission[s].key \in Keys /\ submission[s].old \in SUBSET Item
    BY <2>1 DEF EvidenceInv, EvidenceRows, SubmissionRec, NoSubmission
  <2>3. submission[s].old = IF submission[s].kind = "cv" THEN ActiveCv ELSE {}
    BY <2>1 DEF EvidenceInv, LockedInv
  <2>4. QED
    BY <2>1, <2>2, <2>3 DEF UniqueIndexes
<1> DEFINE new == [kind |-> kind, key |-> key, text |-> 0, review |-> "unreviewed", described |-> Nothing, archived |-> FALSE]
<1>1. /\ new \in ItemRec /\ new.kind = kind /\ new.key = key /\ new.archived = FALSE /\ new.review = "unreviewed"
  <2>1. Nothing \in Content
    BY EvidenceAssumption DEF Content, Nothing
  <2>2. 0 \in 0..MaxText /\ "unreviewed" \in ReviewState
    BY EvidenceAssumption DEF ReviewState
  <2>3. key \in SubmissionKey \cup {"no key"}
    BY DEF Keys
  <2>4. QED
    BY <2>1, <2>2, <2>3 DEF ItemRec
<1>2. item' = [j \in Item |-> IF j = i THEN new
                              ELSE IF j \in old THEN [item[j] EXCEPT !.archived = TRUE] ELSE item[j]]
  BY <1>0 DEF Create
<1> HIDE DEF new
<1>3. \A j \in old : j # i /\ item[j] \in ItemRec /\ Submitted(j)
  BY <1>0 DEF ActiveCv, Current, Submitted, EvidenceInv, EvidenceRows
<1>4. ASSUME NEW j \in old
      PROVE  /\ item'[j] \in ItemRec /\ item'[j].kind = item[j].kind /\ item'[j].key = item[j].key
             /\ item'[j].text = item[j].text /\ item'[j].review = item[j].review
             /\ item'[j].described = item[j].described /\ item'[j].archived = TRUE
  <2> DEFINE replaced == [item[j] EXCEPT !.archived = TRUE]
  <2>1. /\ replaced \in ItemRec /\ replaced.kind = item[j].kind /\ replaced.key = item[j].key
        /\ replaced.text = item[j].text /\ replaced.review = item[j].review
        /\ replaced.described = item[j].described /\ replaced.archived = TRUE
    BY <1>3 DEF ItemRec
  <2>2. item'[j] = replaced
    BY <1>2, <1>3
  <2> HIDE DEF replaced
  <2>3. QED
    BY <2>1, <2>2
<1>5. item'[i] = new /\ \A j \in Item : j # i /\ j \notin old => item'[j] = item[j]
  BY <1>2
<1>6. item' \in [Item -> ItemRec \cup {NoItem}]
  <2>1. DOMAIN item' = Item /\ item' = [j \in Item |-> item'[j]]
    BY <1>2
  <2>2. \A j \in Item : item'[j] \in ItemRec \cup {NoItem}
    BY <1>1, <1>4, <1>5 DEF EvidenceInv, EvidenceRows
  <2>3. QED
    BY <2>1, <2>2
<1>7. Submitted(i)' /\ \A j \in Item \ {i} : Submitted(j)' <=> Submitted(j)
  BY <1>1, <1>3, <1>4, <1>5, NoItemIsNone DEF Submitted
<1>8. \A j \in Item : Submitted(j) => Submitted(j)'
  BY <1>0, <1>7
<1>9. /\ efile' \in [EFile -> EFileRec]
      /\ \A f \in EFile : /\ efile'[f].row = efile[f].row /\ efile'[f].of = efile[f].of
                          /\ efile'[f].object = efile[f].object /\ efile'[f].upload = efile[f].upload
                          /\ efile'[f].replaces = efile[f].replaces /\ efile'[f].answered = efile[f].answered
  <2>1. efile' = [f \in EFile |-> IF efile[f].upload # "none" /\ efile[f].of \in old
                                  THEN [efile[f] EXCEPT !.fresh = FALSE] ELSE efile[f]]
    BY <1>0 DEF Create
  <2>2. ASSUME NEW f \in EFile
        PROVE  /\ efile'[f] \in EFileRec
               /\ efile'[f].row = efile[f].row /\ efile'[f].of = efile[f].of
               /\ efile'[f].object = efile[f].object /\ efile'[f].upload = efile[f].upload
               /\ efile'[f].replaces = efile[f].replaces /\ efile'[f].answered = efile[f].answered
    <3> DEFINE behind == [efile[f] EXCEPT !.fresh = FALSE]
    <3>1. efile[f] \in EFileRec
      BY DEF EvidenceInv, EvidenceRows
    <3>2. /\ behind \in EFileRec /\ behind.row = efile[f].row /\ behind.of = efile[f].of
          /\ behind.object = efile[f].object /\ behind.upload = efile[f].upload /\ behind.replaces = efile[f].replaces
          /\ behind.answered = efile[f].answered
      BY <3>1 DEF EFileRec
    <3>3. efile'[f] = behind \/ efile'[f] = efile[f]
      BY <2>1
    <3> HIDE DEF behind
    <3>4. QED
      BY <3>1, <3>2, <3>3
  <2>3. QED
    BY <2>1, <2>2
<1>10. (\A j : ActiveFiles(j)' = ActiveFiles(j)) /\ StoreStep
  BY <1>9, SameRows, StoreStays
<1>11. UploadInv'
  <2>1. \A f \in EFile : efile[f].replaces \subseteq EFile
    BY DEF EvidenceInv, EvidenceRows, EFileRec
  <2>2. QED
    BY <1>9, <2>1 DEF EvidenceInv, UploadInv, UploadOK
<1>12. /\ page' \in [Page -> PageRec]
       /\ \A p \in Page : page'[p] # NoPage =>
            /\ page[p] # NoPage /\ page'[p].of = page[p].of
            /\ page'[p].fresh => page'[p] = page[p] /\ page[p].of \notin old
  <2>1. page' = [p \in Page |-> IF page[p].stage # "none" /\ page[p].of \in old
                                THEN [page[p] EXCEPT !.fresh = FALSE] ELSE page[p]]
    BY <1>0 DEF Create
  <2>2. ASSUME NEW p \in Page
        PROVE  /\ page'[p] \in PageRec
               /\ page'[p] # NoPage =>
                    /\ page[p] # NoPage /\ page'[p].of = page[p].of
                    /\ page'[p].fresh => page'[p] = page[p] /\ page[p].of \notin old
    <3> DEFINE behind == [page[p] EXCEPT !.fresh = FALSE]
    <3>1. page[p] \in PageRec
      BY DEF EvidenceInv, EvidenceRows
    <3>2. CASE page[p].stage # "none" /\ page[p].of \in old
      <4>1. page[p] \in OpenPage /\ page[p] # NoPage
        BY <3>1, <3>2 DEF PageRec, NoPage
      <4>2. behind \in OpenPage /\ ~behind.fresh /\ behind.of = page[p].of
        BY <4>1 DEF OpenPage
      <4>3. page'[p] = behind
        BY <2>1, <3>2
      <4> HIDE DEF behind
      <4>4. QED
        BY <4>1, <4>2, <4>3 DEF PageRec
    <3>3. CASE ~(page[p].stage # "none" /\ page[p].of \in old)
      BY <2>1, <3>1, <3>3 DEF PageRec, OpenPage, NoPage
    <3>4. QED
      BY <3>2, <3>3
  <2>3. QED
    BY <2>1, <2>2
<1>13. PageInv'
  <2>1. ASSUME NEW p \in Page, page'[p] # NoPage
        PROVE  /\ Submitted(page[p].of)'
               /\ page'[p].fresh => page'[p].text = item'[page'[p].of].text
               /\ page'[p].fresh /\ page'[p].stage = "shown" => page'[p].files = ActiveFiles(page[p].of)'
    <3>1. page[p] # NoPage /\ page'[p].of = page[p].of /\ page[p].of \in Item
      BY <1>12, <2>1 DEF EvidenceInv, EvidenceRows, PageRec, OpenPage
    <3>2. PICK j \in Item : j = page[p].of
      BY <3>1
    <3>3. Submitted(j) /\ Submitted(j)' /\ j # i
      BY <1>0, <1>8, <3>1, <3>2 DEF EvidenceInv, PageInv
    <3>4. ASSUME page'[p].fresh
          PROVE  page'[p].text = item'[j].text /\ (page'[p].stage = "shown" => page'[p].files = ActiveFiles(j)')
      <4>1. page'[p] = page[p] /\ j \notin old
        BY <1>12, <2>1, <3>2, <3>4
      <4>2. page[p].text = item[j].text /\ (page[p].stage = "shown" => page[p].files = ActiveFiles(j))
        BY <3>1, <3>2, <3>4, <4>1 DEF EvidenceInv, PageInv
      <4>3. item'[j] = item[j] /\ ActiveFiles(j)' = ActiveFiles(j)
        BY <1>5, <1>10, <3>3, <4>1
      <4>4. QED
        BY <4>1, <4>2, <4>3
    <3>5. QED
      BY <3>1, <3>2, <3>3, <3>4
  <2>2. QED
    BY <2>1 DEF PageInv
<1>14. submission' = [submission EXCEPT ![s] = NoSubmission]
  BY DEF Create
<1>15. submission' \in [Submission -> SubmissionRec] /\ \A o \in Submission : submission'[o].stage # "locked"
  <2>1. NoSubmission \in SubmissionRec /\ NoSubmission.stage # "locked"
    BY DEF SubmissionRec, NoSubmission
  <2>2. \A o \in Submission \ {s} : submission[o].stage # "locked"
    BY <1>0 DEF EvidenceInv, LockedInv
  <2>3. QED
    BY <1>14, <2>1, <2>2 DEF EvidenceInv, EvidenceRows
<1>16. EvidenceRows' /\ LockedInv'
  BY <1>6, <1>9, <1>12, <1>15 DEF EvidenceRows, LockedInv
<1>17. ReviewDescribesContent'
  <2>1. ASSUME NEW j \in Item, Submitted(j)', item'[j].review # "unreviewed" PROVE item'[j].described = ContentOf(j)'
    <3>1. j # i
      BY <1>1, <1>5, <2>1
    <3>2. item'[j].review = item[j].review /\ item'[j].described = item[j].described /\ item'[j].text = item[j].text
      BY <1>4, <1>5, <3>1
    <3>3. item[j].described = [text |-> item[j].text, files |-> ActiveFiles(j)]
      BY <1>7, <2>1, <3>1, <3>2 DEF EvidenceInv, ReviewDescribesContent, ContentOf
    <3>4. QED
      BY <1>10, <3>2, <3>3 DEF ContentOf
  <2>2. QED
    BY <2>1 DEF ReviewDescribesContent
<1>18. OneItemPerKey'
  <2>1. \A j \in Item \ {i} : Submitted(j)' => Submitted(j) /\ item'[j].key = item[j].key
    BY <1>4, <1>5, <1>7
  <2>2. item'[i].key = key
    BY <1>1, <1>5
  <2>3. ASSUME NEW j \in Item, NEW k \in Item, j # k, Submitted(j)', Submitted(k)', item'[j].key = item'[k].key
        PROVE  item'[j].key = "no key"
    <3>1. CASE j = i
      BY <1>0, <2>1, <2>2, <2>3, <3>1
    <3>2. CASE k = i
      BY <1>0, <2>1, <2>2, <2>3, <3>2
    <3>3. CASE j # i /\ k # i
      BY <2>1, <2>3, <3>3 DEF EvidenceInv, OneItemPerKey
    <3>4. QED
      BY <3>1, <3>2, <3>3
  <2>4. QED
    BY <2>3 DEF OneItemPerKey
<1>19. ActiveCv' = IF kind = "cv" THEN {i} ELSE ActiveCv
  <2>1. i \in ActiveCv' <=> kind = "cv"
    BY <1>1, <1>5, <1>7 DEF ActiveCv, Current
  <2>2. i \notin ActiveCv
    BY <1>0 DEF ActiveCv, Current
  <2>3. \A j \in Item \ {i} : j \in ActiveCv' <=> j \in ActiveCv /\ j \notin old
    <3>1. ASSUME NEW j \in Item \ {i} PROVE j \in ActiveCv' <=> j \in ActiveCv /\ j \notin old
      <4>1. CASE j \in old
        BY <1>4, <4>1 DEF ActiveCv, Current
      <4>2. CASE j \notin old
        BY <1>5, <1>7, <4>2 DEF ActiveCv, Current
      <4>3. QED
        BY <4>1, <4>2
    <3>2. QED
      BY <3>1
  <2>4. ActiveCv \subseteq Item /\ ActiveCv' \subseteq Item
    BY DEF ActiveCv
  <2>5. CASE kind = "cv"
    <3>1. old = ActiveCv
      BY <1>0, <2>5
    <3>2. \A j \in Item : j \in ActiveCv' <=> j = i
      BY <2>1, <2>3, <2>5, <3>1
    <3>3. QED
      BY <2>4, <2>5, <3>2
  <2>6. CASE kind # "cv"
    <3>1. old = {}
      BY <1>0, <2>6
    <3>2. \A j \in Item : j \in ActiveCv' <=> j \in ActiveCv
      BY <2>1, <2>2, <2>3, <2>6, <3>1
    <3>3. QED
      BY <2>4, <2>6, <3>2
  <2>7. QED
    BY <2>5, <2>6
<1>20. OneCv'
  BY <1>19 DEF EvidenceInv, OneCv
<1>21. QED
  BY <1>10, <1>11, <1>13, <1>16, <1>17, <1>18, <1>19, <1>20
  DEF EvidencePromise, EvidenceInv, CvStays

LEMMA EvidenceStep == EvidenceInv /\ EvidenceNext => EvidencePromise
  BY SubmissionSteps, CreateSteps, OwnerSteps, UploadSteps, AttachSteps, PageSteps, ReviewSteps DEF EvidenceNext

LEMMA EvidenceStill == EvidenceInv /\ UNCHANGED evidenceVars => EvidencePromise
<1> SUFFICES ASSUME EvidenceInv, UNCHANGED evidenceVars PROVE EvidencePromise
  OBVIOUS
<1>1. LockedInv' /\ UNCHANGED <<item, efile, page, submission>>
  BY DEF evidenceVars, EvidenceInv, LockedInv, ActiveCv, Current, Submitted
<1>2. QED
  BY <1>1, SubmissionMoved DEF EvidenceInv, EvidenceRows

LEMMA EvidenceInvAlways == EvidenceSpec => []EvidenceInv
<1>1. EvidenceInv /\ [EvidenceNext]_evidenceVars => EvidenceInv'
  BY EvidenceStep, EvidenceStill DEF EvidencePromise
<1> QED
  BY <1>1, EvidenceStart, PTL DEF EvidenceSpec

(* A review is of the text and the files its page showed, for any number of  *)
(* pages read in two parts, owners' changes and overlapping submissions.     *)
THEOREM ReviewsDescribe == EvidenceSpec => []ReviewDescribesContent
<1>1. EvidenceInv => ReviewDescribesContent
  BY DEF EvidenceInv
<1> QED
  BY <1>1, EvidenceInvAlways, PTL

(* Submissions that are repeated or that race each other leave one item for  *)
(* a key and one current CV, and a replacement never leaves none.            *)
THEOREM OneSubmissionCounts == EvidenceSpec => SubmissionsReplace
<1>1. OneCv' => Cardinality(ActiveCv') <= 1
  <2>1. ASSUME NEW S, \A i, j \in S : i = j PROVE Cardinality(S) <= 1
    <3>1. CASE S = {}
      <4>1. Cardinality(S) = 0
        BY <3>1, FS_EmptySet
      <4>2. QED
        BY <4>1
    <3>2. ASSUME NEW i \in S PROVE Cardinality(S) <= 1
      <4>1. S = {i}
        BY <2>1
      <4>2. Cardinality({i}) = 1
        BY FS_Singleton
      <4>3. QED
        BY <4>1, <4>2
    <3>3. QED
      BY <3>1, <3>2
  <2>2. QED
    BY <2>1 DEF OneCv
<1>2. ASSUME EvidenceInv, [EvidenceNext]_evidenceVars
      PROVE  [/\ OneItemPerKey' /\ Cardinality(ActiveCv') <= 1
              /\ ActiveCv # {} /\ ActiveCv' = {} => UNCHANGED submission]_evidenceVars
  <2>1. EvidencePromise
    BY <1>2, EvidenceStep, EvidenceStill
  <2>2. OneItemPerKey' /\ OneCv'
    BY <2>1 DEF EvidencePromise, EvidenceInv
  <2>3. Cardinality(ActiveCv') <= 1
    BY <1>1, <2>2
  <2>4. QED
    BY <2>1, <2>2, <2>3 DEF EvidencePromise, CvStays
<1> QED
  BY <1>2, EvidenceInvAlways, PTL DEF EvidenceSpec, SubmissionsReplace

(* Evidence files implement private file storage: a file whose owner was     *)
(* told that it is attached was listed together with its object and keeps    *)
(* it; only one whose answer was lost may lose its object.                   *)
THEOREM EvidenceFilesRefine == EvidenceSpec => EvidenceFilesAreKept
<1>1. EvidenceInit => EvidenceStore!Init
  BY DEF EvidenceInit, EvidenceStore!Init, EvidenceListed, NoEFile
<1>2. EvidenceInv /\ [EvidenceNext]_evidenceVars
        => [EvidenceStore!Next]_<<EvidenceListed, EvidenceReadable, EvidenceAnswered>>
  BY EvidenceStep, EvidenceStill DEF EvidencePromise, StoreStep
<1> QED
  BY <1>1, <1>2, EvidenceInvAlways, PTL
  DEF EvidenceSpec, EvidenceFilesAreKept, EvidenceStore!Spec, EvidenceReadable, EvidenceAnswered

-----------------------------------------------------------------------------
(* Conversations *)

Decision == {"PENDING", "APPROVED", "REJECTED"}
AskRec == [status : Decision, requester : Person, nominated : Person \cup {NoPerson}, selected : Person \cup {NoPerson},
           version : Nat, since : Nat, former : SUBSET Person]
MessageRec == [in : ReplacementRequest, author : Person, archived : BOOLEAN, asOf : Nat]
RowRec == [read : BOOLEAN, archived : BOOLEAN]
StandingRec == [role : RoleOf, active : BOOLEAN, inTeam : BOOLEAN, scope : BOOLEAN]

PostCall == [op : {"post"}, author : Person, in : ReplacementRequest, heard : SUBSET Person,
             asOf : Nat, locked : BOOLEAN]
ArchiveCall == [op : {"archiveMessage"}, row : Message, fresh : BOOLEAN]
MarkCall == [op : {"mark"}, of : Person, about : Message, column : {"read", "archived"}, value : BOOLEAN]
ReadStage == {"actor", "scopes", "subject"}
CreateNoteCall == [op : {"createNote"}, subject : Person, visibility : {"private_to_author", "shared_upward"},
                   actor : Person, role : RoleOf, scope : BOOLEAN, read : ReadStage]
ArchiveNoteCall == [op : {"archiveNote"}, row : Memo, fresh : BOOLEAN,
                    actor : Person, role : RoleOf, scope : BOOLEAN, read : ReadStage]
TalkRec == PostCall \cup ArchiveCall \cup MarkCall \cup CreateNoteCall \cup ArchiveNoteCall \cup {NoTalk}

ConversationRows ==
  /\ asked \in [ReplacementRequest -> AskRec \cup {NoAsk}]
  /\ thread \subseteq ReplacementRequest
  /\ message \in [Message -> MessageRec \cup {NoMessage}]
  /\ inbox \in [Message \X Person -> RowRec \cup {NoRow}]
  /\ standing \in [Person -> StandingRec]
  /\ talk \in [Talk -> TalkRec]

(* Nobody is selected before the decision; a nomination is of a version that *)
(* there was; a thread is a request's.                                       *)
RequestInv ==
  /\ \A r \in ReplacementRequest : asked[r].status = "PENDING" => asked[r].selected = NoPerson
  /\ \A r \in ReplacementRequest : asked[r] # NoAsk => asked[r].since <= asked[r].version
  /\ \A r \in thread : asked[r] # NoAsk

(* A message is in a thread, and its author read a version of the request    *)
(* that there was; no row is about no message.                               *)
MessageInv ==
  \A m \in Message :
    /\ message[m] # NoMessage =>
         /\ message[m].in \in thread
         /\ message[m].asOf <= asked[message[m].in].version
    /\ message[m] = NoMessage => \A p \in Person : inbox[<<m, p>>] = NoRow

(* What a post has read of the request are those who must hear of what it    *)
(* writes, and none who may not.                                             *)
CallFits(c) ==
  /\ c.op = "post" =>
       /\ asked[c.in] # NoAsk /\ c.asOf <= asked[c.in].version
       /\ \A p \in Person : MustHear(asked[c.in], c.asOf, p) => p \in c.heard
       /\ \A p \in c.heard : MayHear(asked[c.in], c.asOf, p)
  /\ c.op = "mark" => inbox[<<c.about, c.of>>] # NoRow
  /\ c.op = "archiveMessage" => message[c.row] # NoMessage
CallsFit == \A x \in Talk : CallFits(talk[x])

ConversationsInv ==
  ConversationRows /\ RequestInv /\ MessageInv /\ CallsFit /\ EveryoneHasHeard

LEMMA NoCall ==
  /\ NoTalk \in TalkRec /\ CallFits(NoTalk)
  /\ NoAsk \notin AskRec /\ NoMessage \notin MessageRec /\ NoRow \notin RowRec
<1>1. NoTalk \in TalkRec /\ CallFits(NoTalk)
  BY DEF TalkRec, CallFits, NoTalk
<1>2. NoAsk \notin AskRec
  BY DEF NoAsk, AskRec
<1>3. NoMessage \notin MessageRec
  BY DEF NoMessage, MessageRec
<1>4. NoRow \notin RowRec
  BY DEF NoRow, RowRec
<1> QED
  BY <1>1, <1>2, <1>3, <1>4

LEMMA ConversationsStart == ConversationsInit => ConversationsInv
<1> SUFFICES ASSUME ConversationsInit PROVE ConversationsInv
  OBVIOUS
<1>1. standing \in [Person -> StandingRec]
  <2>1. \A role \in RoleOf : [role |-> role, active |-> TRUE, inTeam |-> TRUE, scope |-> role = "ADMIN"] \in StandingRec
    BY DEF StandingRec
  <2>2. {[role |-> role, active |-> TRUE, inTeam |-> TRUE, scope |-> role = "ADMIN"] : role \in RoleOf} \subseteq StandingRec
    BY <2>1
  <2>3. QED
    BY <2>2 DEF ConversationsInit
<1>2. ConversationRows
  BY <1>1, NoCall DEF ConversationsInit, ConversationRows
<1>3. RequestInv
  BY DEF ConversationsInit, RequestInv, NoAsk
<1>4. MessageInv /\ EveryoneHasHeard
  BY DEF ConversationsInit, MessageInv, EveryoneHasHeard
<1>5. CallsFit
  BY NoCall DEF ConversationsInit, CallsFit
<1> QED
  BY <1>2, <1>3, <1>4, <1>5 DEF ConversationsInv

(* A step that moves calls and standings only.                               *)
LEMMA CallsMoved ==
  ASSUME ConversationsInv, UNCHANGED <<asked, thread, message, inbox>>,
         standing' \in [Person -> StandingRec], talk' \in [Talk -> TalkRec], \A x \in Talk : CallFits(talk'[x])
  PROVE  ConversationsInv'
<1>1. CallsFit'
  BY DEF CallsFit, CallFits, MustHear, MayHear
<1>2. QED
  BY <1>1 DEF ConversationsInv, ConversationRows, RequestInv, MessageInv, EveryoneHasHeard, MustHear, MayHear

(* One call moves.                                                           *)
LEMMA CallMoved ==
  ASSUME ConversationsInv, UNCHANGED <<asked, thread, message, inbox, standing>>,
         NEW x \in Talk, NEW c \in TalkRec, CallFits(c), talk' = [talk EXCEPT ![x] = c]
  PROVE  ConversationsInv'
<1>1. talk' \in [Talk -> TalkRec]
  BY DEF ConversationsInv, ConversationRows
<1>2. \A y \in Talk : talk'[y] = IF y = x THEN c ELSE talk[y]
  BY DEF ConversationsInv, ConversationRows
<1>3. \A y \in Talk : CallFits(talk'[y])
  <2>1. ASSUME NEW y \in Talk PROVE CallFits(talk'[y])
    <3>1. CASE y = x
      <4>1. talk'[y] = c
        BY <1>2, <3>1
      <4>2. QED
        BY <4>1
    <3>2. CASE y # x
      <4>1. talk'[y] = talk[y] /\ CallFits(talk[y])
        BY <1>2, <3>2 DEF ConversationsInv, CallsFit
      <4>2. QED
        BY <4>1
    <3>3. QED
      BY <3>1, <3>2
  <2>2. QED
    BY <2>1
<1>4. standing' \in [Person -> StandingRec]
  BY DEF ConversationsInv, ConversationRows
<1>5. QED
  BY <1>1, <1>3, <1>4, CallsMoved

(* A call ends, and those that read the same row are behind.                 *)
LEMMA TalkEnds ==
  ASSUME talk \in [Talk -> TalkRec], NEW x \in Talk, NEW row, EndTalk(x, row)
  PROVE  /\ talk' \in [Talk -> TalkRec]
         /\ \A y \in Talk : \/ talk'[y] = NoTalk \/ talk'[y] = talk[y]
                            \/ talk'[y] \in ArchiveCall /\ talk[y] \in ArchiveCall /\ talk'[y].row = talk[y].row
                            \/ talk'[y] \in ArchiveNoteCall
<1>1. ASSUME NEW y \in Talk
      PROVE  /\ talk'[y] \in TalkRec
             /\ \/ talk'[y] = NoTalk \/ talk'[y] = talk[y]
                \/ talk'[y] \in ArchiveCall /\ talk[y] \in ArchiveCall /\ talk'[y].row = talk[y].row
                \/ talk'[y] \in ArchiveNoteCall
  <2> DEFINE behind == [talk[y] EXCEPT !.fresh = FALSE]
  <2>1. talk[y] \in TalkRec /\ NoTalk \in TalkRec
    BY NoCall
  <2>2. \/ talk'[y] = NoTalk \/ talk'[y] = talk[y]
        \/ "row" \in DOMAIN talk[y] /\ talk'[y] = behind
    BY DEF EndTalk
  <2>3. ASSUME "row" \in DOMAIN talk[y], talk'[y] = behind
        PROVE  \/ talk'[y] \in ArchiveCall /\ talk[y] \in ArchiveCall /\ talk'[y].row = talk[y].row
               \/ talk'[y] \in ArchiveNoteCall
    <3>1. talk[y] \in ArchiveCall \/ talk[y] \in ArchiveNoteCall
      BY <2>1, <2>3 DEF TalkRec, PostCall, ArchiveCall, MarkCall, CreateNoteCall, ArchiveNoteCall, NoTalk
    <3>2. CASE talk[y] \in ArchiveCall
      <4>1. behind \in ArchiveCall /\ behind.row = talk[y].row
        BY <3>2 DEF ArchiveCall
      <4>2. QED
        BY <2>3, <3>2, <4>1
    <3>3. CASE talk[y] \in ArchiveNoteCall
      <4>1. behind \in ArchiveNoteCall
        BY <3>3 DEF ArchiveNoteCall
      <4>2. QED
        BY <2>3, <4>1
    <3>4. QED
      BY <3>1, <3>2, <3>3
  <2> HIDE DEF behind
  <2>4. QED
    BY <2>1, <2>2, <2>3 DEF TalkRec
<1>2. talk' = [y \in Talk |-> talk'[y]]
  BY DEF EndTalk
<1>3. QED
  BY <1>1, <1>2

(* Calls go on fitting while messages and rows only become more.             *)
LEMMA CallsStayFit ==
  ASSUME ConversationsInv, asked' = asked,
         \A m \in Message : message[m] # NoMessage => message'[m] # NoMessage,
         \A n \in Message \X Person : inbox[n] # NoRow => inbox'[n] # NoRow,
         talk' \in [Talk -> TalkRec],
         \A y \in Talk : \/ talk'[y] = NoTalk \/ talk'[y] = talk[y]
                         \/ talk'[y] \in ArchiveCall /\ talk[y] \in ArchiveCall /\ talk'[y].row = talk[y].row
                         \/ talk'[y] \in ArchiveNoteCall
  PROVE  CallsFit'
<1>2. ASSUME NEW y \in Talk PROVE CallFits(talk[y])'
  <2>1. CallFits(talk[y]) /\ talk[y] \in TalkRec
    BY DEF ConversationsInv, CallsFit, ConversationRows
  <2>2. CASE talk'[y] = NoTalk
    BY <2>2 DEF CallFits, NoTalk
  <2>3. CASE talk'[y] \in ArchiveNoteCall
    BY <2>3 DEF CallFits, ArchiveNoteCall
  <2>4. CASE talk'[y] \in ArchiveCall /\ talk[y] \in ArchiveCall /\ talk'[y].row = talk[y].row
    BY <2>1, <2>4 DEF CallFits, ArchiveCall
  <2>5. CASE talk'[y] = talk[y]
    <3>1. CASE talk[y].op = "post"
      BY <2>1, <2>5, <3>1 DEF CallFits, MustHear, MayHear
    <3>2. CASE talk[y].op = "mark"
      <4>1. talk[y] \in MarkCall
        BY <2>1, <3>2 DEF TalkRec, PostCall, ArchiveCall, CreateNoteCall, ArchiveNoteCall, NoTalk
      <4>2. <<talk[y].about, talk[y].of>> \in Message \X Person
        BY <4>1 DEF MarkCall
      <4>3. QED
        BY <2>1, <2>5, <3>2, <4>2 DEF CallFits
    <3>3. CASE talk[y].op = "archiveMessage"
      <4>1. talk[y] \in ArchiveCall
        BY <2>1, <3>3 DEF TalkRec, PostCall, MarkCall, CreateNoteCall, ArchiveNoteCall, NoTalk
      <4>2. talk[y].row \in Message
        BY <4>1 DEF ArchiveCall
      <4>3. QED
        BY <2>1, <2>5, <3>3, <4>2 DEF CallFits
    <3>4. CASE talk[y].op \notin {"post", "mark", "archiveMessage"}
      BY <2>5, <3>4 DEF CallFits
    <3>5. QED
      BY <3>1, <3>2, <3>3, <3>4
  <2>6. QED
    BY <2>2, <2>3, <2>4, <2>5
<1>3. QED
  BY <1>2 DEF CallsFit

(* Archiving and marking change a message or a row, and make or take none.   *)
LEMMA MessagesKept ==
  ASSUME ConversationsInv, UNCHANGED <<asked, thread, standing>>,
         message' \in [Message -> MessageRec \cup {NoMessage}], inbox' \in [Message \X Person -> RowRec \cup {NoRow}],
         talk' \in [Talk -> TalkRec], CallsFit',
         \A m \in Message : /\ message'[m] = NoMessage <=> message[m] = NoMessage
                            /\ message[m] # NoMessage =>
                                 /\ message'[m].in = message[m].in /\ message'[m].author = message[m].author
                                 /\ message'[m].asOf = message[m].asOf,
         \A n \in Message \X Person : inbox'[n] = NoRow <=> inbox[n] = NoRow
  PROVE  ConversationsInv'
<1>2. \A m \in Message, p \in Person : inbox'[<<m, p>>] = NoRow <=> inbox[<<m, p>>] = NoRow
  OBVIOUS
<1>3. MessageInv'
  BY <1>2 DEF ConversationsInv, MessageInv
<1>4. EveryoneHasHeard'
  BY <1>2 DEF ConversationsInv, EveryoneHasHeard, MustHear, MayHear
<1>5. ConversationRows' /\ RequestInv'
  BY DEF ConversationsInv, ConversationRows, RequestInv
<1>6. QED
  BY <1>3, <1>4, <1>5 DEF ConversationsInv

(* A request that moves: a new version, with the same nominee or another.    *)
RequestMoves(old, new) ==
  /\ new.requester = old.requester /\ new.version = old.version + 1
  /\ old.selected = NoPerson /\ old.since <= old.version
  /\ \/ new.nominated = old.nominated /\ new.since = old.since /\ new.former = old.former
     \/ /\ new.since = new.version
        /\ old.former \subseteq new.former /\ {old.nominated} \ {NoPerson} \subseteq new.former

LEMMA NoneForgotten ==
  ASSUME NEW old \in AskRec, NEW new \in AskRec, new = old \/ RequestMoves(old, new),
         NEW asOf \in Nat, asOf <= old.version, NEW p \in Person
  PROVE  /\ asOf <= new.version
         /\ MustHear(new, asOf, p) => MustHear(old, asOf, p)
         /\ MayHear(old, asOf, p) => MayHear(new, asOf, p)
<1>1. /\ old.version \in Nat /\ old.since \in Nat /\ new.version \in Nat /\ new.since \in Nat
      /\ p # NoPerson
  BY ConversationsAssumption DEF AskRec, NoPerson
<1>2. CASE new = old
  BY <1>2
<1>3. CASE RequestMoves(old, new)
  BY <1>1, <1>3 DEF RequestMoves, MustHear, MayHear
<1> QED
  BY <1>2, <1>3

(* A request is made, edited or decided.                                     *)
LEMMA RequestMoved ==
  ASSUME ConversationsInv, UNCHANGED <<thread, message, inbox, standing, talk>>,
         NEW r \in ReplacementRequest, NEW new \in AskRec, asked' = [asked EXCEPT ![r] = new],
         new.status = "PENDING" => new.selected = NoPerson,
         new.since <= new.version,
         asked[r] = NoAsk \/ RequestMoves(asked[r], new)
  PROVE  ConversationsInv'
<1>1. /\ asked \in [ReplacementRequest -> AskRec \cup {NoAsk}] /\ thread \subseteq ReplacementRequest
      /\ message \in [Message -> MessageRec \cup {NoMessage}] /\ talk \in [Talk -> TalkRec]
  BY DEF ConversationsInv, ConversationRows
<1>2. asked'[r] = new /\ \A q \in ReplacementRequest \ {r} : asked'[q] = asked[q]
  BY <1>1
<1>3. ASSUME NEW q \in ReplacementRequest, asked[q] # NoAsk, NEW asOf \in Nat, asOf <= asked[q].version
      PROVE  /\ asked'[q] # NoAsk /\ asOf <= asked'[q].version
             /\ \A p \in Person : /\ MustHear(asked'[q], asOf, p) => MustHear(asked[q], asOf, p)
                                  /\ MayHear(asked[q], asOf, p) => MayHear(asked'[q], asOf, p)
  <2>1. PICK old \in AskRec, now \in AskRec :
          old = asked[q] /\ now = asked'[q] /\ (now = old \/ RequestMoves(old, now))
    BY <1>1, <1>2, <1>3
  <2>2. asOf <= old.version
    BY <1>3, <2>1
  <2>3. \A p \in Person : /\ asOf <= now.version
                          /\ MustHear(now, asOf, p) => MustHear(old, asOf, p)
                          /\ MayHear(old, asOf, p) => MayHear(now, asOf, p)
    BY <2>1, <2>2, NoneForgotten
  <2>4. asOf <= now.version
    BY <2>3, <2>1 DEF AskRec
  <2> QED
    BY <2>1, <2>3, <2>4, NoCall
<1>4. RequestInv'
  <2>1. ASSUME NEW q \in ReplacementRequest
        PROVE  /\ asked'[q].status = "PENDING" => asked'[q].selected = NoPerson
               /\ asked'[q] # NoAsk => asked'[q].since <= asked'[q].version
    <3>1. CASE q = r
      BY <1>2, <3>1
    <3>2. CASE q # r
      BY <1>2, <3>2 DEF ConversationsInv, RequestInv
    <3> QED
      BY <3>1, <3>2
  <2>2. \A q \in thread' : asked'[q] # NoAsk
    BY <1>1, <1>2, NoCall DEF ConversationsInv, RequestInv
  <2> QED
    BY <2>1, <2>2 DEF RequestInv
<1>5. ASSUME NEW m \in Message, message[m] # NoMessage
      PROVE  /\ message[m].in \in thread /\ message[m].asOf <= asked'[message[m].in].version
             /\ \A p \in Person \ {message[m].author} :
                  /\ MustHear(asked'[message[m].in], message[m].asOf, p) => inbox[<<m, p>>] # NoRow
                  /\ inbox[<<m, p>>] # NoRow => MayHear(asked'[message[m].in], message[m].asOf, p)
  <2>1. PICK q \in ReplacementRequest, asOf \in Nat :
          /\ q = message[m].in /\ asOf = message[m].asOf
          /\ q \in thread /\ asked[q] # NoAsk /\ asOf <= asked[q].version
    <3>1. message[m] \in MessageRec
      BY <1>1, <1>5
    <3> QED
      BY <1>5, <3>1 DEF ConversationsInv, MessageInv, RequestInv, MessageRec
  <2>2. \A p \in Person \ {message[m].author} :
          /\ MustHear(asked[q], asOf, p) => inbox[<<m, p>>] # NoRow
          /\ inbox[<<m, p>>] # NoRow => MayHear(asked[q], asOf, p)
    BY <1>5, <2>1 DEF ConversationsInv, EveryoneHasHeard
  <2>3. /\ asOf <= asked'[q].version
        /\ \A p \in Person : /\ MustHear(asked'[q], asOf, p) => MustHear(asked[q], asOf, p)
                             /\ MayHear(asked[q], asOf, p) => MayHear(asked'[q], asOf, p)
    BY <1>3, <2>1
  <2> QED
    BY <2>1, <2>2, <2>3, Zenon
<1>6. MessageInv'
  BY <1>5 DEF ConversationsInv, MessageInv
<1>7. EveryoneHasHeard'
  BY <1>5 DEF EveryoneHasHeard, MustHear, MayHear
<1>8. CallsFit'
  <2>1. ASSUME NEW x \in Talk PROVE CallFits(talk[x])'
    <3>1. CallFits(talk[x]) /\ talk[x] \in TalkRec
      BY <1>1 DEF ConversationsInv, CallsFit
    <3>2. CASE talk[x].op = "post"
      <4>1. PICK q \in ReplacementRequest, asOf \in Nat, heard \in SUBSET Person :
              q = talk[x].in /\ asOf = talk[x].asOf /\ heard = talk[x].heard
        BY <3>1, <3>2 DEF TalkRec, PostCall, MarkCall, ArchiveCall, CreateNoteCall, ArchiveNoteCall, NoTalk
      <4>2. /\ asked[q] # NoAsk /\ asOf <= asked[q].version
            /\ \A p \in Person : MustHear(asked[q], asOf, p) => p \in heard
            /\ \A p \in heard : MayHear(asked[q], asOf, p)
        BY <3>1, <3>2, <4>1 DEF CallFits
      <4>3. /\ asked'[q] # NoAsk /\ asOf <= asked'[q].version
            /\ \A p \in Person : /\ MustHear(asked'[q], asOf, p) => MustHear(asked[q], asOf, p)
                                 /\ MayHear(asked[q], asOf, p) => MayHear(asked'[q], asOf, p)
        BY <1>3, <4>2
      <4>4. /\ \A p \in Person : MustHear(asked'[q], asOf, p) => p \in heard
            /\ \A p \in heard : MayHear(asked'[q], asOf, p)
        BY <4>2, <4>3, Zenon
      <4> QED
        BY <3>2, <4>1, <4>3, <4>4 DEF CallFits, MustHear, MayHear
    <3>3. CASE talk[x].op # "post"
      BY <3>1, <3>3 DEF CallFits
    <3> QED
      BY <3>2, <3>3
  <2> QED
    BY <2>1 DEF CallsFit
<1>9. ConversationRows'
  BY DEF ConversationsInv, ConversationRows
<1> QED
  BY <1>4, <1>6, <1>7, <1>8, <1>9 DEF ConversationsInv

LEMMA RequestSteps ==
  ASSUME ConversationsInv, NEW r \in ReplacementRequest,
         \/ \E p \in Person, nominee \in Person \cup {NoPerson} : Ask(r, p, nominee)
         \/ \E nominee \in Person \cup {NoPerson} : Edit(r, nominee)
         \/ \E selected \in Person \cup {NoPerson} : Decide(r, selected)
  PROVE  ConversationsInv'
<1>1. ASSUME NEW p \in Person, NEW nominee \in Person \cup {NoPerson}, Ask(r, p, nominee) PROVE ConversationsInv'
  <2> DEFINE new == [status |-> "PENDING", requester |-> p, nominated |-> nominee, selected |-> NoPerson,
                     version |-> 1, since |-> 1, former |-> {}]
  <2>1. new \in AskRec /\ new.selected = NoPerson /\ new.since <= new.version
    BY DEF AskRec, Decision
  <2>2. /\ asked' = [asked EXCEPT ![r] = new] /\ asked[r] = NoAsk
        /\ UNCHANGED <<thread, message, inbox, standing, talk>>
    BY <1>1 DEF Ask
  <2> HIDE DEF new
  <2>3. QED
    BY <2>1, <2>2, RequestMoved
<1>2. ASSUME asked[r].status = "PENDING"
      PROVE  /\ asked[r] \in AskRec /\ asked[r].selected = NoPerson
             /\ asked[r].since <= asked[r].version
  <2>1. asked[r] \in AskRec \cup {NoAsk} /\ NoAsk.status # "PENDING"
    BY DEF ConversationsInv, ConversationRows, NoAsk
  <2>2. asked[r] \in AskRec /\ asked[r] # NoAsk
    BY <1>2, <2>1
  <2> QED
    BY <1>2, <2>2 DEF ConversationsInv, RequestInv
<1>3. ASSUME NEW nominee \in Person \cup {NoPerson}, Edit(r, nominee) PROVE ConversationsInv'
  <2>1. PICK old \in AskRec : old = asked[r] /\ old.status = "PENDING" /\ old.selected = NoPerson /\ old.since <= old.version
    <3>1. asked[r].status = "PENDING"
      BY <1>3, Zenon DEF Edit
    <3> QED
      BY <1>2, <3>1
  <2>2. PICK since \in Nat, former \in SUBSET Person :
          /\ since = IF nominee = old.nominated THEN old.since ELSE old.version + 1
          /\ former = IF nominee = old.nominated THEN old.former ELSE (old.former \cup {old.nominated}) \ {NoPerson}
    <3>1. /\ old.since \in Nat /\ old.version + 1 \in Nat /\ old.former \in SUBSET Person
          /\ old.nominated \in Person \cup {NoPerson}
      BY DEF AskRec
    <3> QED
      BY <3>1
  <2> DEFINE new == [old EXCEPT !.nominated = nominee, !.version = old.version + 1, !.since = since, !.former = former]
  <2>3. /\ asked' = [asked EXCEPT ![r] = new]
        /\ UNCHANGED <<thread, message, inbox, standing, talk>>
    <3> DEFINE edited(a) ==
          [a EXCEPT !.nominated = nominee, !.version = a.version + 1,
                    !.since = IF nominee = a.nominated THEN a.since ELSE a.version + 1,
                    !.former = IF nominee = a.nominated THEN a.former ELSE (a.former \cup {a.nominated}) \ {NoPerson}]
    <3>1. asked' = [asked EXCEPT ![r] = edited(asked[r])]
      BY <1>3, Zenon DEF Edit
    <3>2. UNCHANGED <<thread, message, inbox, standing, talk>>
      BY <1>3, Zenon DEF Edit
    <3>3. edited(old) = new
      BY <2>2
    <3> HIDE DEF edited, new
    <3> QED
      BY <2>1, <3>1, <3>2, <3>3
  <2>4. /\ new \in AskRec /\ new.status = "PENDING" /\ new.selected = NoPerson /\ new.requester = old.requester
        /\ new.nominated = nominee /\ new.version = old.version + 1 /\ new.since = since /\ new.former = former
    <3> DEFINE People == Person \cup {NoPerson}
    <3>1. AskRec = [status : Decision, requester : Person, nominated : People, selected : People,
                    version : Nat, since : Nat, former : SUBSET Person]
      BY DEF AskRec
    <3>2. nominee \in People /\ old.version + 1 \in Nat
      BY <3>1
    <3> HIDE DEF People
    <3> QED
      BY <2>1, <3>1, <3>2
  <2> HIDE DEF new
  <2>5. /\ since <= new.version
        /\ \/ nominee = old.nominated /\ since = old.since /\ former = old.former
           \/ since = new.version /\ old.former \subseteq former /\ {old.nominated} \ {NoPerson} \subseteq former
    <3>1. old.version \in Nat /\ old.since \in Nat
      BY DEF AskRec
    <3>2. CASE nominee = old.nominated
      BY <2>1, <2>2, <2>4, <3>1, <3>2
    <3>3. CASE nominee # old.nominated
      <4>1. NoPerson \notin old.former
        BY ConversationsAssumption DEF AskRec, NoPerson
      <4> QED
        BY <2>1, <2>2, <2>4, <3>1, <3>3, <4>1
    <3> QED
      BY <3>2, <3>3
  <2>6. RequestMoves(asked[r], new)
    BY <2>1, <2>4, <2>5 DEF RequestMoves
  <2> QED
    BY <2>3, <2>4, <2>5, <2>6, RequestMoved
<1>4. ASSUME NEW selected \in Person \cup {NoPerson}, Decide(r, selected) PROVE ConversationsInv'
  <2>1. PICK old \in AskRec : old = asked[r] /\ old.status = "PENDING" /\ old.selected = NoPerson /\ old.since <= old.version
    <3>1. asked[r].status = "PENDING"
      BY <1>4, Zenon DEF Decide
    <3> QED
      BY <1>2, <3>1
  <2>2. PICK status \in Decision \ {"PENDING"} : status = IF selected = NoPerson THEN "REJECTED" ELSE "APPROVED"
    BY DEF Decision
  <2> DEFINE new == [old EXCEPT !.status = status, !.selected = selected, !.version = old.version + 1]
  <2>3. /\ asked' = [asked EXCEPT ![r] = new]
        /\ UNCHANGED <<thread, message, inbox, standing, talk>>
    <3>1. asked' = [asked EXCEPT ![r] =
            [asked[r] EXCEPT !.status = IF selected = NoPerson THEN "REJECTED" ELSE "APPROVED",
                             !.selected = selected, !.version = asked[r].version + 1]]
      BY <1>4, Zenon DEF Decide
    <3>2. UNCHANGED <<thread, message, inbox, standing, talk>>
      BY <1>4, Zenon DEF Decide
    <3> QED
      BY <2>1, <2>2, <3>1, <3>2
  <2>4. /\ new \in AskRec /\ new.status # "PENDING" /\ new.requester = old.requester /\ new.nominated = old.nominated
        /\ new.version = old.version + 1 /\ new.since = old.since /\ new.former = old.former
    <3> DEFINE People == Person \cup {NoPerson}
    <3>1. AskRec = [status : Decision, requester : Person, nominated : People, selected : People,
                    version : Nat, since : Nat, former : SUBSET Person]
      BY DEF AskRec
    <3>2. selected \in People /\ old.version + 1 \in Nat /\ status \in Decision /\ status # "PENDING"
      BY <2>2, <3>1
    <3> HIDE DEF People
    <3> QED
      BY <2>1, <3>1, <3>2
  <2>5. old.version \in Nat /\ old.since \in Nat
    BY DEF AskRec
  <2> HIDE DEF new
  <2>6. RequestMoves(asked[r], new) /\ new.since <= new.version
    BY <2>1, <2>4, <2>5 DEF RequestMoves
  <2> QED
    BY <2>3, <2>4, <2>6, RequestMoved
<1> QED
  BY <1>1, <1>3, <1>4

LEMMA BeginPostStep ==
  ASSUME ConversationsInv, NEW x \in Talk, NEW p \in Person, NEW r \in ReplacementRequest, BeginPost(x, p, r)
  PROVE  ConversationsInv'
<1> DEFINE c == [op |-> "post", author |-> p, in |-> r, heard |-> Participants(r), asOf |-> asked[r].version, locked |-> FALSE]
<1>1. asked[r] \in AskRec
  BY DEF BeginPost, ConversationsInv, ConversationRows
<1>2. Participants(r) \subseteq Person /\ asked[r].version \in Nat
  BY <1>1 DEF Participants, AskRec
<1>3. c \in PostCall
  BY <1>2 DEF PostCall
<1>4. c.op = "post" /\ c.in = r /\ c.heard = Participants(r) /\ c.asOf = asked[r].version
  OBVIOUS
<1>5. talk' = [talk EXCEPT ![x] = c] /\ UNCHANGED <<asked, thread, message, inbox, standing>> /\ asked[r] # NoAsk
  BY DEF BeginPost, StartTalk
<1> HIDE DEF c
<1>6. CallFits(c)
  <2>1. \A q \in Person : MustHear(asked[r], asked[r].version, q) => q \in Participants(r)
    BY ConversationsAssumption DEF MustHear, Participants, NoPerson
  <2>2. \A q \in Participants(r) : MayHear(asked[r], asked[r].version, q)
    BY DEF MayHear, Participants
  <2>3. QED
    BY <1>2, <1>4, <1>5, <2>1, <2>2 DEF CallFits
<1>7. QED
  BY <1>3, <1>5, <1>6, CallMoved DEF TalkRec

LEMMA LockParentStep ==
  ASSUME ConversationsInv, NEW x \in Talk, LockParent(x)
  PROVE  ConversationsInv'
<1> DEFINE c == [talk[x] EXCEPT !.locked = TRUE]
<1>1. talk[x] \in PostCall /\ CallFits(talk[x])
  <2>1. talk[x] \in TalkRec /\ talk[x].op = "post"
    BY DEF LockParent, ConversationsInv, ConversationRows
  <2>2. QED
    BY <2>1 DEF ConversationsInv, CallsFit, TalkRec, MarkCall, ArchiveCall, CreateNoteCall, ArchiveNoteCall, NoTalk
<1>2. /\ c \in PostCall /\ c.op = talk[x].op /\ c.in = talk[x].in /\ c.heard = talk[x].heard /\ c.asOf = talk[x].asOf
  BY <1>1 DEF PostCall
<1>3. talk' = [talk EXCEPT ![x] = c] /\ UNCHANGED <<asked, thread, message, inbox, standing>>
  BY DEF LockParent
<1> HIDE DEF c
<1>4. CallFits(c)
  BY <1>1, <1>2 DEF CallFits, PostCall
<1>5. QED
  BY <1>2, <1>3, <1>4, CallMoved DEF TalkRec

HasHeard(m, p) ==
  /\ MustHear(asked[message[m].in], message[m].asOf, p) => inbox[<<m, p>>] # NoRow
  /\ inbox[<<m, p>>] # NoRow => MayHear(asked[message[m].in], message[m].asOf, p)

LEMMA PostStep ==
  ASSUME ConversationsInv, NEW x \in Talk, NEW m \in Message, Post(x, m)
  PROVE  ConversationsInv'
<1> DEFINE c == talk[x]
           new == [in |-> c.in, author |-> c.author, archived |-> FALSE, asOf |-> c.asOf]
           row == [read |-> FALSE, archived |-> FALSE]
<1>1. /\ talk \in [Talk -> TalkRec] /\ message \in [Message -> MessageRec \cup {NoMessage}]
      /\ inbox \in [Message \X Person -> RowRec \cup {NoRow}] /\ thread \subseteq ReplacementRequest
  BY DEF ConversationsInv, ConversationRows
<1>2. c \in PostCall /\ CallFits(c)
  <2>1. c \in TalkRec /\ c.op = "post"
    BY <1>1 DEF Post
  <2>2. QED
    BY <2>1 DEF ConversationsInv, CallsFit, TalkRec, MarkCall, ArchiveCall, CreateNoteCall, ArchiveNoteCall, NoTalk
<1>3. PICK r \in ReplacementRequest, author \in Person, heard \in SUBSET Person, asOf \in Nat :
        /\ r = c.in /\ author = c.author /\ heard = c.heard /\ asOf = c.asOf
        /\ asked[r] # NoAsk /\ asOf <= asked[r].version
        /\ \A p \in Person : MustHear(asked[r], asOf, p) => p \in heard
        /\ \A p \in heard : MayHear(asked[r], asOf, p)
  BY <1>2 DEF CallFits, PostCall
<1>4. /\ new \in MessageRec /\ new.in = r /\ new.author = author /\ new.asOf = asOf
  BY <1>3 DEF MessageRec
<1>5. row \in RowRec
  BY DEF RowRec
<1>6. /\ thread' = thread \cup {r} /\ message[m] = NoMessage
      /\ message' = [message EXCEPT ![m] = new]
      /\ inbox' = [n \in Message \X Person |-> IF n[1] = m /\ n[2] \in heard \ {author} THEN row ELSE inbox[n]]
      /\ EndTalk(x, m) /\ UNCHANGED <<asked, standing, memo>>
  BY <1>3 DEF Post, Recipients
<1> HIDE DEF c, new, row
<1>7. /\ message'[m] = new /\ new # NoMessage /\ \A n \in Message \ {m} : message'[n] = message[n]
  BY <1>1, <1>4, <1>6, NoCall
<1>8. \A n \in Message, p \in Person :
        inbox'[<<n, p>>] = IF n = m /\ p \in heard \ {author} THEN row ELSE inbox[<<n, p>>]
  BY <1>6
<1>9. row # NoRow
  BY <1>5, NoCall
<1>10. inbox' \in [Message \X Person -> RowRec \cup {NoRow}]
  BY <1>1, <1>5, <1>6
<1>11. /\ talk' \in [Talk -> TalkRec]
       /\ \A y \in Talk : \/ talk'[y] = NoTalk \/ talk'[y] = talk[y]
                          \/ talk'[y] \in ArchiveCall /\ talk[y] \in ArchiveCall /\ talk'[y].row = talk[y].row
                          \/ talk'[y] \in ArchiveNoteCall
  BY <1>1, <1>6, TalkEnds
<1>12. ConversationRows'
  BY <1>1, <1>4, <1>6, <1>10, <1>11 DEF ConversationsInv, ConversationRows
<1>13. CallsFit'
  <2>1. \A n \in Message : message[n] # NoMessage => message'[n] # NoMessage
    BY <1>7
  <2>2. \A n \in Message \X Person : inbox[n] # NoRow => inbox'[n] # NoRow
    BY <1>6, <1>9
  <2>3. QED
    BY <1>6, <1>11, <2>1, <2>2, CallsStayFit
<1>14. RequestInv'
  BY <1>3, <1>6 DEF ConversationsInv, RequestInv
<1>15. MessageInv'
  <2>1. ASSUME NEW n \in Message
        PROVE  /\ message'[n] # NoMessage =>
                    /\ message'[n].in \in thread'
                    /\ message'[n].asOf <= asked'[message'[n].in].version
               /\ message'[n] = NoMessage => \A p \in Person : inbox'[<<n, p>>] = NoRow
    <3>1. CASE n = m
      BY <1>3, <1>4, <1>6, <1>7, <3>1
    <3>2. CASE n # m
      BY <1>6, <1>7, <1>8, <3>2 DEF ConversationsInv, MessageInv
    <3>3. QED
      BY <3>1, <3>2
  <2>2. QED
    BY <2>1 DEF MessageInv
<1>16. EveryoneHasHeard'
  <2>1. ASSUME NEW n \in Message, message'[n] # NoMessage, NEW p \in Person \ {message'[n].author}
        PROVE  HasHeard(n, p)'
    <3>1. CASE n = m
      <4>1. p # author /\ message'[n].in = r /\ message'[n].asOf = asOf
        BY <1>4, <1>7, <2>1, <3>1
      <4>2. inbox'[<<n, p>>] # NoRow <=> p \in heard
        <5>1. inbox[<<n, p>>] = NoRow
          BY <1>6, <3>1 DEF ConversationsInv, MessageInv
        <5>2. QED
          BY <1>8, <1>9, <3>1, <4>1, <5>1
      <4>3. asked'[r] = asked[r]
        BY <1>6
      <4>4. /\ MustHear(asked[r], asOf, p) => p \in heard
            /\ p \in heard => MayHear(asked[r], asOf, p)
        BY <1>3
      <4> QED
        BY <4>1, <4>2, <4>3, <4>4 DEF HasHeard, MustHear, MayHear
    <3>2. CASE n # m
      <4>1. message'[n] = message[n] /\ inbox'[<<n, p>>] = inbox[<<n, p>>] /\ asked' = asked
        BY <1>6, <1>7, <1>8, <3>2
      <4>2. HasHeard(n, p)
        BY <2>1, <4>1 DEF ConversationsInv, EveryoneHasHeard, HasHeard
      <4>3. QED
        BY <4>1, <4>2 DEF HasHeard, MustHear, MayHear
    <3>3. QED
      BY <3>1, <3>2
  <2>2. \A n \in Message : message'[n] # NoMessage => message'[n].in \in thread'
    BY <1>15 DEF MessageInv
  <2>3. QED
    BY <2>1, <2>2 DEF EveryoneHasHeard, HasHeard
<1>17. QED
  BY <1>12, <1>13, <1>14, <1>15, <1>16 DEF ConversationsInv

LEMMA ArchiveMessageSteps ==
  ASSUME ConversationsInv, NEW x \in Talk,
         (\E p \in Person, m \in Message : BeginArchiveMessage(x, p, m)) \/ ArchiveMessage(x)
  PROVE  ConversationsInv'
<1>1. ASSUME NEW p \in Person, NEW m \in Message, BeginArchiveMessage(x, p, m) PROVE ConversationsInv'
  <2> DEFINE c == [op |-> "archiveMessage", row |-> m, fresh |-> TRUE]
  <2>1. c \in TalkRec /\ c.op = "archiveMessage" /\ c.row = m
    BY DEF TalkRec, ArchiveCall
  <2>2. /\ talk' = [talk EXCEPT ![x] = c] /\ UNCHANGED <<asked, thread, message, inbox, standing>>
        /\ message[m] # NoMessage
    BY <1>1 DEF BeginArchiveMessage, StartTalk
  <2> HIDE DEF c
  <2>3. CallFits(c)
    BY <2>1, <2>2 DEF CallFits
  <2>4. QED
    BY <2>1, <2>2, <2>3, CallMoved
<1>2. ASSUME ArchiveMessage(x) PROVE ConversationsInv'
  <2>1. talk[x] \in TalkRec /\ talk[x].op = "archiveMessage" /\ CallFits(talk[x])
    BY <1>2 DEF ArchiveMessage, ConversationsInv, ConversationRows, CallsFit
  <2>2. talk[x] \in ArchiveCall
    BY <2>1 DEF TalkRec, PostCall, MarkCall, CreateNoteCall, ArchiveNoteCall, NoTalk
  <2>3. PICK m \in Message : m = talk[x].row /\ message[m] # NoMessage
    BY <2>1, <2>2 DEF ArchiveCall, CallFits
  <2>4. message[m] \in MessageRec /\ message \in [Message -> MessageRec \cup {NoMessage}]
    BY <2>3 DEF ConversationsInv, ConversationRows
  <2> DEFINE new == [message[m] EXCEPT !.archived = TRUE]
  <2>5. /\ new \in MessageRec /\ new.in = message[m].in /\ new.author = message[m].author
        /\ new.asOf = message[m].asOf
    BY <2>4 DEF MessageRec
  <2>6. /\ message' = [message EXCEPT ![m] = new] /\ EndTalk(x, m)
        /\ UNCHANGED <<asked, thread, inbox, standing>>
    BY <1>2, <2>3 DEF ArchiveMessage
  <2> HIDE DEF new
  <2>7. /\ message' \in [Message -> MessageRec \cup {NoMessage}]
        /\ \A n \in Message : /\ message'[n] = NoMessage <=> message[n] = NoMessage
                              /\ message[n] # NoMessage =>
                                   /\ message'[n].in = message[n].in /\ message'[n].author = message[n].author
                                   /\ message'[n].asOf = message[n].asOf
    BY <2>3, <2>4, <2>5, <2>6, NoCall
  <2>8. /\ talk' \in [Talk -> TalkRec]
        /\ \A y \in Talk : \/ talk'[y] = NoTalk \/ talk'[y] = talk[y]
                           \/ talk'[y] \in ArchiveCall /\ talk[y] \in ArchiveCall /\ talk'[y].row = talk[y].row
                           \/ talk'[y] \in ArchiveNoteCall
    BY <2>6, TalkEnds DEF ConversationsInv, ConversationRows
  <2>9. CallsFit'
    BY <2>6, <2>7, <2>8, CallsStayFit
  <2>10. inbox' \in [Message \X Person -> RowRec \cup {NoRow}]
    BY <2>6 DEF ConversationsInv, ConversationRows
  <2>11. QED
    BY <2>6, <2>7, <2>8, <2>9, <2>10, MessagesKept
<1>3. QED
  BY <1>1, <1>2

LEMMA BeginMarkStep ==
  ASSUME ConversationsInv, NEW x \in Talk, NEW p \in Person, NEW m \in Message,
         NEW column \in {"read", "archived"}, NEW value \in BOOLEAN, BeginMark(x, p, m, column, value)
  PROVE  ConversationsInv'
<1> DEFINE c == [op |-> "mark", of |-> p, about |-> m, column |-> column, value |-> value]
<1>1. c \in TalkRec /\ c.op = "mark" /\ c.of = p /\ c.about = m
  <2>1. c \in MarkCall
    BY DEF MarkCall
  <2>2. QED
    BY <2>1 DEF TalkRec
<1>2. /\ talk' = [talk EXCEPT ![x] = c] /\ UNCHANGED <<asked, thread, message, inbox, standing>>
      /\ inbox[<<m, p>>] # NoRow
  BY DEF BeginMark, StartTalk, Owned
<1> HIDE DEF c
<1>3. CallFits(c)
  BY <1>1, <1>2 DEF CallFits
<1>4. QED
  BY <1>1, <1>2, <1>3, CallMoved

LEMMA MarkSteps ==
  ASSUME ConversationsInv, (\E x \in Talk : Mark(x)) \/ \E p \in Person : MarkAllRead(p)
  PROVE  ConversationsInv'
<1>0. /\ talk \in [Talk -> TalkRec] /\ inbox \in [Message \X Person -> RowRec \cup {NoRow}]
      /\ message \in [Message -> MessageRec \cup {NoMessage}]
  BY DEF ConversationsInv, ConversationRows
<1>1. ASSUME NEW x \in Talk, Mark(x) PROVE ConversationsInv'
  <2>1. talk[x] \in TalkRec /\ talk[x].op = "mark" /\ CallFits(talk[x])
    BY <1>0, <1>1 DEF Mark, ConversationsInv, CallsFit
  <2>2. talk[x] \in MarkCall
    BY <2>1 DEF TalkRec, PostCall, ArchiveCall, CreateNoteCall, ArchiveNoteCall, NoTalk
  <2>3. PICK m \in Message, p \in Person : m = talk[x].about /\ p = talk[x].of /\ inbox[<<m, p>>] # NoRow
    BY <2>1, <2>2 DEF MarkCall, CallFits
  <2>4. inbox[<<m, p>>] \in RowRec
    BY <1>0, <2>3
  <2> DEFINE new == Marked(talk[x])
  <2>5. new \in RowRec
    <3>1. talk[x].column = "read" \/ talk[x].column = "archived"
      BY <2>2 DEF MarkCall
    <3>2. talk[x].value \in BOOLEAN
      BY <2>2 DEF MarkCall
    <3>3. CASE talk[x].column = "read"
      <4>1. new = [inbox[<<m, p>>] EXCEPT !["read"] = talk[x].value]
        BY <2>3, <3>3 DEF Marked
      <4>2. QED
        BY <2>4, <3>2, <4>1 DEF RowRec
    <3>4. CASE talk[x].column = "archived"
      <4>1. new = [inbox[<<m, p>>] EXCEPT !["archived"] = talk[x].value]
        BY <2>3, <3>4 DEF Marked
      <4>2. QED
        BY <2>4, <3>2, <4>1 DEF RowRec
    <3>5. QED
      BY <3>1, <3>3, <3>4
  <2>6. /\ inbox' = [inbox EXCEPT ![<<m, p>>] = new] /\ talk' = [talk EXCEPT ![x] = NoTalk]
        /\ UNCHANGED <<asked, thread, message, standing>>
    BY <1>1, <2>3 DEF Mark
  <2> HIDE DEF new
  <2>7. /\ inbox' \in [Message \X Person -> RowRec \cup {NoRow}]
        /\ \A n \in Message \X Person : inbox'[n] = NoRow <=> inbox[n] = NoRow
    BY <1>0, <2>3, <2>5, <2>6, NoCall
  <2>8. talk' \in [Talk -> TalkRec] /\ \A y \in Talk : talk'[y] = NoTalk \/ talk'[y] = talk[y]
    BY <1>0, <2>6, NoCall
  <2>9. CallsFit'
    BY <2>6, <2>7, <2>8, CallsStayFit
  <2>10. QED
    BY <1>0, <2>6, <2>7, <2>8, <2>9, MessagesKept
<1>2. ASSUME NEW p \in Person, MarkAllRead(p) PROVE ConversationsInv'
  <2>1. /\ inbox' = [n \in Message \X Person |->
             IF n[2] = p /\ n[1] \in Inbox(p, "unread") THEN [inbox[n] EXCEPT !.read = TRUE] ELSE inbox[n]]
        /\ UNCHANGED <<asked, thread, message, standing, talk>>
    BY <1>2 DEF MarkAllRead
  <2>2. ASSUME NEW n \in Message \X Person
        PROVE  inbox'[n] \in RowRec \cup {NoRow} /\ (inbox'[n] = NoRow <=> inbox[n] = NoRow)
    <3> DEFINE read == [inbox[n] EXCEPT !.read = TRUE]
    <3>1. CASE n[2] = p /\ n[1] \in Inbox(p, "unread")
      <4>1. inbox[n] # NoRow
        <5>1. n = <<n[1], n[2]>>
          OBVIOUS
        <5>2. inbox[<<n[1], n[2]>>] # NoRow
          BY <3>1 DEF Inbox
        <5>3. QED
          BY <5>1, <5>2
      <4>2. inbox[n] \in RowRec
        BY <1>0, <4>1
      <4>3. read \in RowRec
        BY <4>2 DEF RowRec
      <4>4. inbox'[n] = read
        BY <2>1, <3>1
      <4> HIDE DEF read
      <4>5. QED
        BY <4>1, <4>3, <4>4, NoCall
    <3>2. CASE ~(n[2] = p /\ n[1] \in Inbox(p, "unread"))
      BY <1>0, <2>1, <3>2
    <3>3. QED
      BY <3>1, <3>2
  <2>3. inbox' \in [Message \X Person -> RowRec \cup {NoRow}]
    BY <2>1, <2>2
  <2>4. CallsFit'
    BY <1>0, <2>1, <2>2, CallsStayFit
  <2>5. QED
    BY <1>0, <2>1, <2>2, <2>3, <2>4, MessagesKept
<1>3. QED
  BY <1>1, <1>2

(* The calls about notes. *)
LEMMA NoteCallFits == \A c \in CreateNoteCall \cup ArchiveNoteCall : c \in TalkRec /\ CallFits(c)
  BY DEF TalkRec, CallFits, CreateNoteCall, ArchiveNoteCall

LEMMA NoteSteps ==
  ASSUME ConversationsInv, Annotate
  PROVE  ConversationsInv'
<1>0. talk \in [Talk -> TalkRec] /\ standing \in [Person -> StandingRec]
  BY DEF ConversationsInv, ConversationRows
<1>1. ASSUME NEW p \in Person, NEW s \in [role : RoleOf, active : BOOLEAN, inTeam : BOOLEAN, scope : BOOLEAN],
             Restand(p, s)
      PROVE  ConversationsInv'
  <2>1. standing' \in [Person -> StandingRec]
    BY <1>0, <1>1 DEF Restand, StandingRec
  <2>2. UNCHANGED <<asked, thread, message, inbox, talk>>
    BY <1>1 DEF Restand
  <2>3. \A x \in Talk : CallFits(talk[x])
    BY DEF ConversationsInv, CallsFit
  <2>4. QED
    BY <1>0, <2>1, <2>2, <2>3, CallsMoved
<1>2. ASSUME NEW x \in Talk, NEW p \in Person, NEW s \in Person, NEW v \in {"private_to_author", "shared_upward"},
             ReadAuthor(x, p, s, v)
      PROVE  ConversationsInv'
  <2> DEFINE c == [op |-> "createNote", subject |-> s, visibility |-> v,
                   actor |-> p, role |-> standing[p].role, scope |-> FALSE, read |-> "actor"]
  <2>1. standing[p].role \in RoleOf
    BY <1>0 DEF StandingRec
  <2>3. c \in CreateNoteCall
    BY <2>1 DEF CreateNoteCall, ReadStage
  <2>4. /\ talk' = [talk EXCEPT ![x] = c] /\ UNCHANGED <<asked, thread, message, inbox, standing>>
    BY <1>2 DEF ReadAuthor, StartTalk
  <2> HIDE DEF c
  <2>5. QED
    BY <2>3, <2>4, NoteCallFits, CallMoved
<1>3. ASSUME NEW x \in Talk, NEW p \in Person, NEW n \in Memo,
             ReadArchiver(x, p, n)
      PROVE  ConversationsInv'
  <2> DEFINE c == [op |-> "archiveNote", row |-> n, fresh |-> TRUE,
                   actor |-> p, role |-> standing[p].role, scope |-> FALSE, read |-> "actor"]
  <2>1. standing[p].role \in RoleOf
    BY <1>0 DEF StandingRec
  <2>3. c \in ArchiveNoteCall
    BY <2>1 DEF ArchiveNoteCall, ReadStage
  <2>4. /\ talk' = [talk EXCEPT ![x] = c] /\ UNCHANGED <<asked, thread, message, inbox, standing>>
    BY <1>3 DEF ReadArchiver, StartTalk
  <2> HIDE DEF c
  <2>5. QED
    BY <2>3, <2>4, NoteCallFits, CallMoved
<1>4. ASSUME NEW x \in Talk, talk[x].op \in {"createNote", "archiveNote"}
      PROVE  talk[x] \in CreateNoteCall \/ talk[x] \in ArchiveNoteCall
  BY <1>0, <1>4 DEF TalkRec, PostCall, ArchiveCall, MarkCall, NoTalk
<1>5. ASSUME NEW x \in Talk, ReadScopes(x) PROVE ConversationsInv'
  <2> DEFINE c == [talk[x] EXCEPT !.scope = standing[talk[x].actor].scope, !.read = "scopes"]
  <2>1. talk[x] \in CreateNoteCall \/ talk[x] \in ArchiveNoteCall
    BY <1>4, <1>5 DEF ReadScopes
  <2>2. talk[x].actor \in Person
    BY <2>1 DEF CreateNoteCall, ArchiveNoteCall
  <2>3. standing[talk[x].actor].scope \in BOOLEAN
    BY <1>0, <2>2 DEF StandingRec
  <2>4. c \in CreateNoteCall \/ c \in ArchiveNoteCall
    BY <2>1, <2>3 DEF CreateNoteCall, ArchiveNoteCall, ReadStage
  <2>5. /\ talk' = [talk EXCEPT ![x] = c] /\ UNCHANGED <<asked, thread, message, inbox, standing>>
    BY <1>5 DEF ReadScopes
  <2> HIDE DEF c
  <2>6. QED
    BY <2>4, <2>5, NoteCallFits, CallMoved
<1>6. ASSUME NEW x \in Talk, ReadSubject(x) PROVE ConversationsInv'
  <2> DEFINE c == [talk[x] EXCEPT !.read = "subject"]
  <2>1. talk[x] \in CreateNoteCall \/ talk[x] \in ArchiveNoteCall
    BY <1>4, <1>6 DEF ReadSubject
  <2>2. c \in CreateNoteCall \/ c \in ArchiveNoteCall
    BY <2>1 DEF CreateNoteCall, ArchiveNoteCall, ReadStage
  <2>3. /\ talk' = [talk EXCEPT ![x] = c] /\ UNCHANGED <<asked, thread, message, inbox, standing>>
    BY <1>6 DEF ReadSubject
  <2> HIDE DEF c
  <2>4. QED
    BY <2>2, <2>3, NoteCallFits, CallMoved
<1>7. ASSUME NEW x \in Talk, (\E n \in Memo : CreateNote(x, n)) \/ ArchiveManagementNote(x)
      PROVE  ConversationsInv'
  <2>1. PICK row : EndTalk(x, row) /\ UNCHANGED <<asked, thread, message, inbox, standing>>
    BY <1>7 DEF CreateNote, ArchiveManagementNote
  <2>2. /\ talk' \in [Talk -> TalkRec]
        /\ \A y \in Talk : \/ talk'[y] = NoTalk \/ talk'[y] = talk[y]
                           \/ talk'[y] \in ArchiveCall /\ talk[y] \in ArchiveCall /\ talk'[y].row = talk[y].row
                           \/ talk'[y] \in ArchiveNoteCall
    BY <1>0, <2>1, TalkEnds
  <2>3. CallsFit'
    BY <2>1, <2>2, CallsStayFit
  <2>4. /\ message \in [Message -> MessageRec \cup {NoMessage}]
        /\ inbox \in [Message \X Person -> RowRec \cup {NoRow}]
    BY DEF ConversationsInv, ConversationRows
  <2>5. QED
    BY <2>1, <2>2, <2>3, <2>4, MessagesKept
<1>8. QED
  BY <1>1, <1>2, <1>3, <1>5, <1>6, <1>7 DEF Annotate

LEMMA RefusedStep ==
  ASSUME ConversationsInv, NEW x \in Talk, Refused(x)
  PROVE  ConversationsInv'
<1>1. NoTalk \in TalkRec /\ CallFits(NoTalk)
  BY NoCall
<1>2. talk' = [talk EXCEPT ![x] = NoTalk] /\ UNCHANGED <<asked, thread, message, inbox, standing>>
  BY DEF Refused
<1>3. QED
  BY <1>1, <1>2, CallMoved

LEMMA ConversationsInvAlways == ConversationsSpec => []ConversationsInv
<1>1. ASSUME ConversationsInv, ConversationsNext PROVE ConversationsInv'
  <2>1. CASE Discuss
    BY <1>1, <2>1, RequestSteps, BeginPostStep, LockParentStep, PostStep, ArchiveMessageSteps DEF Discuss
  <2>2. CASE Receive
    BY <1>1, <2>2, BeginMarkStep, MarkSteps DEF Receive
  <2>3. CASE Annotate
    BY <1>1, <2>3, NoteSteps
  <2>4. CASE \E x \in Talk : Refused(x)
    BY <1>1, <2>4, RefusedStep
  <2> QED
    BY <1>1, <2>1, <2>2, <2>3, <2>4 DEF ConversationsNext
<1>2. ASSUME ConversationsInv, UNCHANGED conversationVars PROVE ConversationsInv'
  <2>1. /\ UNCHANGED <<asked, thread, message, inbox, standing, talk>>
        /\ standing \in [Person -> StandingRec] /\ talk \in [Talk -> TalkRec]
        /\ \A x \in Talk : CallFits(talk[x])
    BY <1>2 DEF conversationVars, ConversationsInv, ConversationRows, CallsFit
  <2>2. QED
    BY <1>2, <2>1, CallsMoved
<1> QED
  BY <1>1, <1>2, ConversationsStart, PTL DEF ConversationsSpec

(* While requests are edited and decided under calls that post: requester,   *)
(* nominee and selected employee have been notified of every message that    *)
(* was written by someone who knew of them, and whoever else was notified    *)
(* was the nominee when its author read the request: for any people,         *)
(* requests, messages and calls in flight, and any number of edits.          *)
THEOREM TheThreadIsHeard == ConversationsSpec => []EveryoneHasHeard
<1>1. ConversationsInv => EveryoneHasHeard
  BY DEF ConversationsInv
<1> QED
  BY <1>1, ConversationsInvAlways, PTL

-----------------------------------------------------------------------------
(* Operations *)

AnyStatus == Unfinished \cup {"COMPLETED", "ARCHIVED"}
SiteRec == [status : AnyStatus, details : Text]
NoteRec == [about : Target, author : Actor, text : Text, kept : Seq(Text), archived : BOOLEAN]

FieldTo == [field : {"details"}, value : Text] \cup [field : {"status"}, value : AnyStatus]
CallTo == AnyStatus \cup FieldTo \cup {"LIVE", "CLOSED"} \cup NoteRec \cup Text \cup {TRUE}
CallSeen == SiteRec \cup {NoSite} \cup {"NONE", "LIVE", "CLOSED"} \cup NoteRec \cup {NoNote}
OpCall == [op : {"create", "update", "attach", "detach", "addNote", "editNote", "archiveNote"},
           row : Target \cup Slot \cup OpNote, to : CallTo, seen : CallSeen,
           fresh : BOOLEAN, checked : BOOLEAN, overtaken : BOOLEAN]

OperationsRows ==
  /\ site \in [Target -> SiteRec \cup {NoSite}]
  /\ slot \in [Slot -> {"NONE", "LIVE", "CLOSED"}]
  /\ note \in [OpNote -> NoteRec \cup {NoNote}]
  /\ call \in [Call -> OpCall \cup {NoOpCall}]

(* What a call has seen or checked is still so, unless its row or a row of  *)
(* the same client has moved since.                                          *)
CreateFits(c) ==
  /\ c.row \in Target /\ c.to \in AnyStatus /\ c.checked
  /\ c.row[1] = "CLIENT" => c.to = "ACTIVE"
  /\ c.row[1] = "PROJECT" /\ ~c.overtaken => site[ClientFor(c.row)].status # "ARCHIVED"
UpdateFits(c) ==
  /\ c.row \in Target /\ c.to \in FieldTo /\ Known(c.row)
  /\ c.fresh => c.seen = site[c.row]
  /\ c.row[1] = "CLIENT" /\ c.to.value = "ARCHIVED" /\ c.checked /\ ~c.overtaken => UnfinishedProjects(c.row) = {}
NoteFits(c) ==
  /\ c.row \in OpNote /\ note[c.row] # NoNote
  /\ c.fresh => c.seen = note[c.row]
OpFits(c) ==
  /\ c.op = "create" => CreateFits(c)
  /\ c.op = "update" => UpdateFits(c)
  /\ c.op \in {"attach", "detach"} => c.row \in Slot /\ c.to \in {"LIVE", "CLOSED"}
  /\ c.op = "addNote" => c.row \in OpNote /\ c.to \in NoteRec
  /\ c.op \in {"editNote", "archiveNote"} => NoteFits(c)
  /\ c.op = "editNote" => c.to \in Text
  /\ c.op = "archiveNote" => c.to = TRUE

OperationsInv == OperationsRows /\ \A y \in Call : OpFits(call[y])

LEMMA NoRecs ==
  /\ NoSite \notin SiteRec /\ NoNote \notin NoteRec /\ NoOpCall \notin OpCall /\ OpFits(NoOpCall)
<1>1. NoSite \notin SiteRec
  BY DEF NoSite, SiteRec, AnyStatus, Unfinished
<1>2. NoNote \notin NoteRec
  BY DEF NoNote, NoteRec
<1>3. NoOpCall \notin OpCall
  BY DEF NoOpCall, OpCall
<1>4. OpFits(NoOpCall)
  BY DEF NoOpCall, OpFits
<1> QED
  BY <1>1, <1>2, <1>3, <1>4

LEMMA ClientOf ==
  ASSUME NEW t \in Target
  PROVE  /\ t[1] \in {"CLIENT", "PROJECT", "LOCATION"}
         /\ ClientFor(t) \in Target /\ ClientFor(t)[1] = "CLIENT" /\ ClientFor(ClientFor(t)) = ClientFor(t)
         /\ t[1] = "CLIENT" => ClientFor(t) = t
<1>1. CASE t \in {"CLIENT"} \X Client
  BY <1>1 DEF ClientFor, Target
<1>2. CASE t \in ({"PROJECT"} \X Project) \cup ({"LOCATION"} \X Location)
  <2>1. t[1] # "CLIENT" /\ t[1] \in {"CLIENT", "PROJECT", "LOCATION"} /\ OwnedBy[t[2]] \in Client
    BY <1>2, OperationsAssumption
  <2>2. ClientFor(t) = <<"CLIENT", OwnedBy[t[2]]>>
    BY <2>1 DEF ClientFor
  <2>3. QED
    BY <2>1, <2>2 DEF ClientFor, Target
<1>3. QED
  BY <1>1, <1>2 DEF Target

LEMMA OperationsStart == OperationsInit => OperationsInv
<1> SUFFICES ASSUME OperationsInit PROVE OperationsInv
  OBVIOUS
<1>1. OperationsRows
  BY DEF OperationsInit, OperationsRows
<1>2. \A y \in Call : OpFits(call[y])
  BY NoRecs DEF OperationsInit
<1>3. QED
  BY <1>1, <1>2 DEF OperationsInv

(* One call moves, and no row.                                               *)
LEMMA OneCallMoved ==
  ASSUME OperationsInv, UNCHANGED <<site, slot, note>>, NEW x \in Call, NEW c \in OpCall \cup {NoOpCall}, OpFits(c),
         call' = [call EXCEPT ![x] = c]
  PROVE  OperationsInv'
<1>1. OperationsRows'
  BY DEF OperationsInv, OperationsRows
<1>2. \A y \in Call : call'[y] = IF y = x THEN c ELSE call[y]
  BY DEF OperationsInv, OperationsRows
<1>3. ASSUME NEW y \in Call PROVE OpFits(call[y])'
  <2>1. OpFits(call'[y])
    <3>1. CASE y = x
      BY <1>2, <3>1
    <3>2. CASE y # x
      BY <1>2, <3>2 DEF OperationsInv
    <3>3. QED
      BY <3>1, <3>2
  <2>2. QED
    BY <2>1 DEF OpFits, CreateFits, UpdateFits, NoteFits, Known, UnfinishedProjects
<1>4. QED
  BY <1>1, <1>3 DEF OperationsInv

(* A call commits, and the version of row r has moved.                       *)
LEMMA Settled ==
  ASSUME OperationsRows, NEW x \in Call, NEW r, Settle(x, r)
  PROVE  /\ call' \in [Call -> OpCall \cup {NoOpCall}]
         /\ \A y \in Call :
              \/ call'[y] = NoOpCall
              \/ /\ call[y] \in OpCall
                 /\ call'[y].op = call[y].op /\ call'[y].row = call[y].row /\ call'[y].to = call[y].to
                 /\ call'[y].seen = call[y].seen /\ call'[y].checked = call[y].checked
                 /\ call'[y].fresh => call[y].fresh /\ call[y].row # r
                 /\ ~call'[y].overtaken => ~call[y].overtaken /\ ~Overtakes(r, y)
<1>1. ASSUME NEW y \in Call
      PROVE  /\ call'[y] \in OpCall \cup {NoOpCall}
             /\ \/ call'[y] = NoOpCall
                \/ /\ call[y] \in OpCall
                   /\ call'[y].op = call[y].op /\ call'[y].row = call[y].row /\ call'[y].to = call[y].to
                   /\ call'[y].seen = call[y].seen /\ call'[y].checked = call[y].checked
                   /\ call'[y].fresh => call[y].fresh /\ call[y].row # r
                   /\ ~call'[y].overtaken => ~call[y].overtaken /\ ~Overtakes(r, y)
  <2> DEFINE fresh == call[y].fresh /\ call[y].row # r
             overtaken == call[y].overtaken \/ Overtakes(r, y)
             behind == [call[y] EXCEPT !.fresh = fresh, !.overtaken = overtaken]
  <2>1. fresh \in BOOLEAN /\ overtaken \in BOOLEAN
    OBVIOUS
  <2>2. call'[y] = NoOpCall \/ (call[y] # NoOpCall /\ call'[y] = behind)
    BY DEF Settle
  <2>3. fresh => call[y].fresh /\ call[y].row # r
    OBVIOUS
  <2>4. ~overtaken => ~call[y].overtaken /\ ~Overtakes(r, y)
    OBVIOUS
  <2> HIDE DEF fresh, overtaken
  <2>5. ASSUME call[y] \in OpCall
        PROVE  /\ behind \in OpCall /\ behind.fresh = fresh /\ behind.overtaken = overtaken
               /\ behind.op = call[y].op /\ behind.row = call[y].row /\ behind.to = call[y].to
               /\ behind.seen = call[y].seen /\ behind.checked = call[y].checked
    BY <2>1, <2>5 DEF OpCall
  <2> HIDE DEF behind
  <2>6. call[y] \in OpCall \/ call[y] = NoOpCall
    BY DEF OperationsRows
  <2>7. CASE call'[y] = NoOpCall
    BY <2>7
  <2>8. CASE call[y] \in OpCall /\ call'[y] = behind
    BY <2>3, <2>4, <2>5, <2>8
  <2>9. QED
    BY <2>2, <2>6, <2>7, <2>8
<1>2. call' = [y \in Call |-> call'[y]]
  BY DEF Settle
<1>3. QED
  BY <1>1, <1>2

(* A client, project or location is written.                                 *)
LEMMA SiteWritten ==
  ASSUME OperationsInv, UNCHANGED <<slot, note>>, NEW x \in Call, NEW t \in Target, NEW new \in SiteRec,
         site' = [site EXCEPT ![t] = new], Settle(x, t)
  PROVE  OperationsInv'
<1>1. /\ call' \in [Call -> OpCall \cup {NoOpCall}]
      /\ \A y \in Call :
           \/ call'[y] = NoOpCall
           \/ /\ call[y] \in OpCall
              /\ call'[y].op = call[y].op /\ call'[y].row = call[y].row /\ call'[y].to = call[y].to
              /\ call'[y].seen = call[y].seen /\ call'[y].checked = call[y].checked
              /\ call'[y].fresh => call[y].fresh /\ call[y].row # t
              /\ ~call'[y].overtaken => ~call[y].overtaken /\ ~Overtakes(t, y)
  BY Settled DEF OperationsInv
<1>2. site \in [Target -> SiteRec \cup {NoSite}]
  BY DEF OperationsInv, OperationsRows
<1>3. site'[t] = new /\ \A q \in Target \ {t} : site'[q] = site[q]
  BY <1>2
<1>4. OperationsRows'
  BY <1>1, <1>2 DEF OperationsInv, OperationsRows
<1>5. ASSUME NEW y \in Call, call'[y] # NoOpCall PROVE OpFits(call[y])'
  <2>1. OpFits(call[y])
    BY DEF OperationsInv
  <2>2. CASE call[y].op = "create"
    <3>1. PICK q \in Target : q = call[y].row
      BY <2>1, <2>2 DEF OpFits, CreateFits
    <3>2. /\ call[y].to \in AnyStatus /\ call[y].checked
          /\ q[1] = "CLIENT" => call[y].to = "ACTIVE"
          /\ q[1] = "PROJECT" /\ ~call[y].overtaken => site[ClientFor(q)].status # "ARCHIVED"
      BY <2>1, <2>2, <3>1 DEF OpFits, CreateFits
    <3>3. ~call'[y].overtaken => ~call[y].overtaken /\ ClientFor(t) # ClientFor(q)
      BY <1>1, <1>5, <3>1, <3>2 DEF Overtakes
    <3>4. ClientFor(t) # ClientFor(q) => site'[ClientFor(q)] = site[ClientFor(q)]
      BY <1>3, ClientOf
    <3>5. call'[y].op = "create" /\ call'[y].row = q /\ call'[y].to = call[y].to /\ call'[y].checked
      BY <1>1, <1>5, <2>2, <3>1, <3>2
    <3>6. CreateFits(call[y])'
      BY <3>2, <3>3, <3>4, <3>5 DEF CreateFits, ClientFor
    <3>7. QED
      BY <3>5, <3>6 DEF OpFits
  <2>3. CASE call[y].op = "update"
    <3>1. PICK q \in Target : q = call[y].row
      BY <2>1, <2>3 DEF OpFits, UpdateFits
    <3>2. /\ call[y].to \in FieldTo /\ Known(q)
          /\ call[y].fresh => call[y].seen = site[q]
          /\ q[1] = "CLIENT" /\ call[y].to.value = "ARCHIVED" /\ call[y].checked /\ ~call[y].overtaken
               => UnfinishedProjects(q) = {}
      BY <2>1, <2>3, <3>1 DEF OpFits, UpdateFits
    <3>3. /\ call'[y].op = "update" /\ call'[y].row = q /\ call'[y].to = call[y].to
          /\ call'[y].seen = call[y].seen /\ call'[y].checked = call[y].checked
          /\ call'[y].fresh => call[y].fresh /\ q # t
          /\ ~call'[y].overtaken => ~call[y].overtaken /\ ~Overtakes(t, y)
      BY <1>1, <1>5, <2>3, <3>1
    <3>4. Known(q)'
      BY <1>3, <3>2, NoRecs DEF Known
    <3>5. call'[y].fresh => call'[y].seen = site'[q]
      BY <1>3, <3>2, <3>3
    <3>6. ASSUME q[1] = "CLIENT", call'[y].to.value = "ARCHIVED", call'[y].checked, ~call'[y].overtaken
          PROVE  UnfinishedProjects(q)' = {}
      <4>1. UnfinishedProjects(q) = {}
        BY <3>2, <3>3, <3>6
      <4>2. ClientFor(t) # q
        <5>1. ClientFor(q) = q
          BY <3>6, ClientOf
        <5>2. QED
          BY <3>1, <3>3, <3>6, <5>1 DEF Overtakes
      <4>3. UnfinishedProjects(q)' \subseteq UnfinishedProjects(q)
        <5>1. ASSUME NEW p \in Target, p[1] = "PROJECT", ClientFor(p) = q, site'[p].status \in Unfinished
              PROVE  p \in UnfinishedProjects(q)
          <6>1. p # t
            BY <4>2, <5>1
          <6>2. site'[p] = site[p]
            BY <1>3, <6>1
          <6>3. QED
            BY <5>1, <6>2 DEF UnfinishedProjects
        <5>2. QED
          BY <5>1 DEF UnfinishedProjects, ClientFor
      <4>4. QED
        BY <4>1, <4>3
    <3>7. UpdateFits(call[y])'
      BY <3>2, <3>3, <3>4, <3>5, <3>6 DEF UpdateFits
    <3>8. QED
      BY <3>3, <3>7 DEF OpFits
  <2>4. CASE call[y].op \notin {"create", "update"}
    BY <1>1, <1>5, <2>1, <2>4 DEF OpFits, NoteFits
  <2>5. QED
    BY <2>2, <2>3, <2>4
<1>6. ASSUME NEW y \in Call, call'[y] = NoOpCall PROVE OpFits(call[y])'
  BY <1>6 DEF OpFits, NoOpCall
<1>7. QED
  BY <1>4, <1>5, <1>6 DEF OperationsInv

(* A note is written, or a row that relates two others.                      *)
LEMMA NoteWritten ==
  ASSUME OperationsInv, site' = site, slot' \in [Slot -> {"NONE", "LIVE", "CLOSED"}],
         note' \in [OpNote -> NoteRec \cup {NoNote}], NEW x \in Call, NEW r, Settle(x, r),
         \A n \in OpNote : n # r => note'[n] = note[n],
         \A n \in OpNote : note[n] # NoNote => note'[n] # NoNote
  PROVE  OperationsInv'
<1>1. /\ call' \in [Call -> OpCall \cup {NoOpCall}]
      /\ \A y \in Call :
           \/ call'[y] = NoOpCall
           \/ /\ call[y] \in OpCall
              /\ call'[y].op = call[y].op /\ call'[y].row = call[y].row /\ call'[y].to = call[y].to
              /\ call'[y].seen = call[y].seen /\ call'[y].checked = call[y].checked
              /\ call'[y].fresh => call[y].fresh /\ call[y].row # r
              /\ ~call'[y].overtaken => ~call[y].overtaken /\ ~Overtakes(r, y)
  BY Settled DEF OperationsInv
<1>2. OperationsRows'
  BY <1>1 DEF OperationsInv, OperationsRows
<1>3. ASSUME NEW y \in Call, call'[y] # NoOpCall PROVE OpFits(call[y])'
  <2>1. OpFits(call[y])
    BY DEF OperationsInv
  <2>2. /\ call'[y].op = call[y].op /\ call'[y].row = call[y].row /\ call'[y].to = call[y].to
        /\ call'[y].seen = call[y].seen /\ call'[y].checked = call[y].checked
        /\ call'[y].fresh => call[y].fresh /\ call[y].row # r
        /\ ~call'[y].overtaken => ~call[y].overtaken
    BY <1>1, <1>3
  <2>3. CASE call[y].op = "create"
    <3>1. CreateFits(call[y])'
      BY <2>1, <2>2, <2>3 DEF OpFits, CreateFits, ClientFor
    <3>2. QED
      BY <2>2, <2>3, <3>1 DEF OpFits
  <2>4. CASE call[y].op = "update"
    <3>1. UpdateFits(call[y])'
      BY <2>1, <2>2, <2>4 DEF OpFits, UpdateFits, Known, UnfinishedProjects
    <3>2. QED
      BY <2>2, <2>4, <3>1 DEF OpFits
  <2>5. CASE call[y].op \in {"editNote", "archiveNote"}
    <3>1. PICK n \in OpNote : n = call[y].row
      BY <2>1, <2>5 DEF OpFits, NoteFits
    <3>2. note[n] # NoNote /\ (call[y].fresh => call[y].seen = note[n])
      BY <2>1, <2>5, <3>1 DEF OpFits, NoteFits
    <3>3. note'[n] # NoNote /\ (n # r => note'[n] = note[n])
      BY <3>2
    <3>4. NoteFits(call[y])'
      BY <2>2, <3>1, <3>2, <3>3 DEF NoteFits
    <3>5. QED
      BY <2>1, <2>2, <2>5, <3>4 DEF OpFits
  <2>6. CASE call[y].op \notin {"create", "update", "editNote", "archiveNote"}
    BY <2>1, <2>2, <2>6 DEF OpFits
  <2>7. QED
    BY <2>3, <2>4, <2>5, <2>6
<1>4. ASSUME NEW y \in Call, call'[y] = NoOpCall PROVE OpFits(call[y])'
  BY <1>4 DEF OpFits, NoOpCall
<1>5. QED
  BY <1>2, <1>3, <1>4 DEF OperationsInv

(* What a step of operations promises. *)
SitesSeen ==
  \A t \in Target : Known(t) /\ site'[t] # site[t] =>
    \E x \in Call : /\ call[x] # NoOpCall /\ call'[x] = NoOpCall
                    /\ call[x].op = "update" /\ call[x].row = t /\ call[x].seen = site[t]
NotesSeen ==
  \A n \in OpNote : note[n] # NoNote /\ note'[n] # note[n] =>
    /\ \E x \in Call : /\ call[x] # NoOpCall /\ call'[x] = NoOpCall
                       /\ call[x].op \in {"editNote", "archiveNote"}
                       /\ call[x].row = n /\ call[x].seen = note[n]
    /\ ~note[n].archived
    /\ note'[n].kept \o <<note'[n].text>> \in
         {note[n].kept \o <<note[n].text>>, note[n].kept \o <<note[n].text, note'[n].text>>}
ClosesAlone ==
  ~(WorkUnderArchived' \subseteq WorkUnderArchived) =>
    \E x \in Call : /\ call[x] # NoOpCall /\ call'[x] = NoOpCall
                    /\ call[x].overtaken \/ (call[x].op = "update" /\ call[x].row[1] = "PROJECT")
OperationsPromise == OperationsInv' /\ SitesSeen /\ NotesSeen /\ ClosesAlone

LEMMA Quiet ==
  ASSUME OperationsInv', UNCHANGED <<site, note>>
  PROVE  OperationsPromise
<1>1. WorkUnderArchived' = WorkUnderArchived
  BY DEF WorkUnderArchived, ClientFor
<1>2. QED
  BY <1>1 DEF OperationsPromise, SitesSeen, NotesSeen, ClosesAlone

LEMMA Begun ==
  ASSUME OperationsInv, NEW x \in Call, NEW op, NEW row, NEW to, NEW seen, Begin(x, op, row, to, seen),
         NEW c \in OpCall, OpFits(c),
         c = [op |-> op, row |-> row, to |-> to, seen |-> seen,
              fresh |-> TRUE, checked |-> op = "create", overtaken |-> FALSE]
  PROVE  OperationsPromise
<1>1. call' = [call EXCEPT ![x] = c] /\ UNCHANGED <<site, slot, note>>
  BY DEF Begin
<1>2. OperationsInv'
  BY <1>1, OneCallMoved
<1>3. QED
  BY <1>1, <1>2, Quiet

LEMMA BeginSiteSteps ==
  ASSUME OperationsInv, NEW x \in Call, NEW a \in Actor, NEW t \in Target,
         \/ \E status \in AnyStatus : BeginCreate(x, a, t, status) \/ BeginSetStatus(x, a, t, status)
         \/ \E details \in Text : BeginUpdate(x, a, t, details)
  PROVE  OperationsPromise
<1>0. site[t] \in SiteRec \cup {NoSite}
  BY DEF OperationsInv, OperationsRows
<1>1. ASSUME NEW status \in AnyStatus, BeginCreate(x, a, t, status) PROVE OperationsPromise
  <2> DEFINE c == [op |-> "create", row |-> t, to |-> status, seen |-> NoSite,
                   fresh |-> TRUE, checked |-> "create" = "create", overtaken |-> FALSE]
  <2>1. c \in OpCall
    BY DEF OpCall, CallTo, CallSeen
  <2>2. c.op = "create" /\ c.row = t /\ c.to = status /\ c.checked
    OBVIOUS
  <2>3. Begin(x, "create", t, status, NoSite)
    BY <1>1 DEF BeginCreate
  <2>4. t[1] = "CLIENT" => status = "ACTIVE"
    BY <1>1 DEF BeginCreate
  <2>5. t[1] = "PROJECT" => site[ClientFor(t)].status # "ARCHIVED"
    <3>1. ClientFor(ClientFor(t)) = ClientFor(t)
      BY ClientOf
    <3>2. QED
      BY <1>1, <3>1 DEF BeginCreate, InService
  <2>6. ASSUME NEW d, d = c PROVE OpFits(d)
    <3>1. d.op = "create" /\ d.row = t /\ d.to = status /\ d.checked
      BY <2>2, <2>6
    <3> HIDE DEF c
    <3>2. CreateFits(d)
      BY <2>4, <2>5, <3>1 DEF CreateFits
    <3>3. QED
      BY <3>1, <3>2 DEF OpFits
  <2>7. QED
    BY <2>1, <2>3, <2>6, Begun
<1>2. ASSUME NEW to \in FieldTo, Known(t), Begin(x, "update", t, to, site[t]) PROVE OperationsPromise
  <2> DEFINE c == [op |-> "update", row |-> t, to |-> to, seen |-> site[t],
                   fresh |-> TRUE, checked |-> "update" = "create", overtaken |-> FALSE]
  <2>1. c \in OpCall
    BY <1>0 DEF OpCall, CallTo, CallSeen
  <2>2. c.op = "update" /\ c.row = t /\ c.to = to /\ c.seen = site[t] /\ ~c.checked
    OBVIOUS
  <2>3. ASSUME NEW d, d = c PROVE OpFits(d)
    <3>1. d.op = "update" /\ d.row = t /\ d.to = to /\ d.seen = site[t] /\ ~d.checked
      BY <2>2, <2>3
    <3> HIDE DEF c
    <3>2. UpdateFits(d)
      BY <1>2, <3>1 DEF UpdateFits
    <3>3. QED
      BY <3>1, <3>2 DEF OpFits
  <2>4. QED
    BY <1>2, <2>1, <2>3, Begun
<1>3. ASSUME NEW status \in AnyStatus, BeginSetStatus(x, a, t, status) PROVE OperationsPromise
  <2>1. [field |-> "status", value |-> status] \in FieldTo
    BY DEF FieldTo
  <2>2. QED
    BY <1>2, <1>3, <2>1 DEF BeginSetStatus
<1>4. ASSUME NEW details \in Text, BeginUpdate(x, a, t, details) PROVE OperationsPromise
  <2>1. [field |-> "details", value |-> details] \in FieldTo
    BY DEF FieldTo
  <2>2. QED
    BY <1>2, <1>4, <2>1 DEF BeginUpdate
<1>5. QED
  BY <1>1, <1>3, <1>4

LEMMA BeginSlotSteps ==
  ASSUME OperationsInv, NEW x \in Call, NEW a \in Actor, NEW s \in Slot, BeginAttach(x, a, s) \/ BeginDetach(x, a, s)
  PROVE  OperationsPromise
<1>1. PICK op \in {"attach", "detach"}, to \in {"LIVE", "CLOSED"} : Begin(x, op, s, to, slot[s])
  BY DEF BeginAttach, BeginDetach
<1> DEFINE c == [op |-> op, row |-> s, to |-> to, seen |-> slot[s],
                 fresh |-> TRUE, checked |-> op = "create", overtaken |-> FALSE]
<1>2. slot[s] \in {"NONE", "LIVE", "CLOSED"}
  BY DEF OperationsInv, OperationsRows
<1>3. c \in OpCall
  BY <1>2 DEF OpCall, CallTo, CallSeen
<1>4. OpFits(c)
  BY DEF OpFits
<1>5. QED
  BY <1>1, <1>3, <1>4, Begun

LEMMA BeginNoteSteps ==
  ASSUME OperationsInv, NEW x \in Call, NEW a \in Actor, NEW n \in OpNote,
         \/ \E t \in Target, text \in Text : BeginNote(x, a, n, t, text)
         \/ \E text \in Text : BeginEdit(x, a, n, text)
         \/ BeginArchiveNote(x, a, n)
  PROVE  OperationsPromise
<1>0. note[n] \in NoteRec \cup {NoNote}
  BY DEF OperationsInv, OperationsRows
<1>1. ASSUME NEW t \in Target, NEW text \in Text, BeginNote(x, a, n, t, text) PROVE OperationsPromise
  <2> DEFINE to == [about |-> t, author |-> a, text |-> text, kept |-> << >>, archived |-> FALSE]
             c == [op |-> "addNote", row |-> n, to |-> to, seen |-> NoNote,
                   fresh |-> TRUE, checked |-> "addNote" = "create", overtaken |-> FALSE]
  <2>1. to \in NoteRec
    BY DEF NoteRec
  <2>2. Begin(x, "addNote", n, to, NoNote)
    BY <1>1 DEF BeginNote
  <2> HIDE DEF to
  <2>3. c \in OpCall
    BY <2>1 DEF OpCall, CallTo, CallSeen
  <2>4. OpFits(c)
    BY <2>1 DEF OpFits
  <2>5. QED
    BY <2>2, <2>3, <2>4, Begun
<1>2. ASSUME NEW op \in {"editNote", "archiveNote"}, NEW to, Begin(x, op, n, to, note[n]), note[n] # NoNote,
             op = "editNote" => to \in Text, op = "archiveNote" => to = TRUE
      PROVE  OperationsPromise
  <2> DEFINE c == [op |-> op, row |-> n, to |-> to, seen |-> note[n],
                   fresh |-> TRUE, checked |-> op = "create", overtaken |-> FALSE]
  <2>1. to \in CallTo
    BY <1>2 DEF CallTo
  <2>2. c \in OpCall
    BY <1>0, <2>1 DEF OpCall, CallSeen
  <2>3. OpFits(c)
    BY <1>2 DEF OpFits, NoteFits
  <2>4. QED
    BY <1>2, <2>2, <2>3, Begun
<1>3. QED
  BY <1>1, <1>2 DEF BeginEdit, BeginArchiveNote

LEMMA CreateTargetStep ==
  ASSUME OperationsInv, NEW x \in Call, NEW details \in Text, CreateTarget(x, details)
  PROVE  OperationsPromise
<1>0. site \in [Target -> SiteRec \cup {NoSite}]
  BY DEF OperationsInv, OperationsRows
<1>1. call[x].op = "create" /\ CreateFits(call[x]) /\ call[x] # NoOpCall /\ call'[x] = NoOpCall
  <2>1. call[x].op = "create" /\ OpFits(call[x]) /\ Settle(x, call[x].row)
    BY DEF CreateTarget, OperationsInv
  <2>2. call'[x] = NoOpCall
    BY <2>1 DEF Settle
  <2>3. call[x] # NoOpCall
    BY <2>1 DEF NoOpCall
  <2>4. QED
    BY <2>1, <2>2, <2>3 DEF OpFits
<1>2. PICK t \in Target, status \in AnyStatus : t = call[x].row /\ status = call[x].to
  BY <1>1 DEF CreateFits
<1> DEFINE new == [status |-> status, details |-> details]
<1>3. new \in SiteRec /\ new.status = status
  BY DEF SiteRec
<1>4. /\ site' = [site EXCEPT ![t] = new] /\ Settle(x, t) /\ UNCHANGED <<slot, note>> /\ ~Known(t)
  BY <1>2 DEF CreateTarget
<1> HIDE DEF new
<1>5. OperationsInv'
  BY <1>3, <1>4, SiteWritten
<1>6. site'[t] = new /\ \A q \in Target \ {t} : site'[q] = site[q]
  BY <1>0, <1>4
<1>7. SitesSeen /\ NotesSeen
  BY <1>4, <1>6 DEF SitesSeen, NotesSeen
<1>8. ClosesAlone
  <2>1. SUFFICES ASSUME ~call[x].overtaken, NEW p \in WorkUnderArchived' PROVE p \in WorkUnderArchived
    BY <1>1 DEF ClosesAlone
  <2>2. /\ p \in Target /\ p[1] = "PROJECT" /\ site'[p].status \in Unfinished
        /\ site'[ClientFor(p)].status = "ARCHIVED"
    BY DEF WorkUnderArchived, ClientFor
  <2>3. ClientFor(p) \in Target /\ ClientFor(p)[1] = "CLIENT"
    BY <2>2, ClientOf
  <2>4. ClientFor(p) # t
    <3>1. CASE t[1] = "CLIENT"
      BY <1>1, <1>2, <1>3, <1>6, <2>2, <3>1 DEF CreateFits
    <3>2. CASE t[1] # "CLIENT"
      BY <2>3, <3>2
    <3>3. QED
      BY <3>1, <3>2
  <2>5. site[ClientFor(p)].status = "ARCHIVED"
    BY <1>6, <2>2, <2>3, <2>4
  <2>6. p # t
    BY <1>1, <1>2, <2>1, <2>2, <2>5 DEF CreateFits
  <2>7. QED
    BY <1>6, <2>2, <2>5, <2>6 DEF WorkUnderArchived
<1>9. QED
  BY <1>5, <1>7, <1>8 DEF OperationsPromise

LEMMA UpdateTargetStep ==
  ASSUME OperationsInv, NEW x \in Call, UpdateTarget(x)
  PROVE  OperationsPromise
<1>0. site \in [Target -> SiteRec \cup {NoSite}]
  BY DEF OperationsInv, OperationsRows
<1>1. /\ call[x].op = "update" /\ UpdateFits(call[x]) /\ call[x] # NoOpCall /\ call'[x] = NoOpCall /\ call[x].fresh
      /\ ArchivesClient(x) => call[x].checked
  <2>1. /\ call[x].op = "update" /\ OpFits(call[x]) /\ Settle(x, call[x].row) /\ call[x].fresh
        /\ ArchivesClient(x) => call[x].checked
    BY DEF UpdateTarget, Guarded, OperationsInv
  <2>2. call'[x] = NoOpCall
    BY <2>1 DEF Settle
  <2>3. call[x] # NoOpCall
    BY <2>1 DEF NoOpCall
  <2>4. QED
    BY <2>1, <2>2, <2>3 DEF OpFits
<1>2. PICK t \in Target, to \in FieldTo : t = call[x].row /\ to = call[x].to
  BY <1>1 DEF UpdateFits
<1> DEFINE new == [site[t] EXCEPT ![to.field] = to.value]
<1>3. site[t] \in SiteRec /\ call[x].seen = site[t]
  BY <1>0, <1>1, <1>2 DEF UpdateFits, Known
<1>4. new \in SiteRec /\ (new.status = site[t].status \/ new.status = to.value)
  <2>1. CASE to \in [field : {"details"}, value : Text]
    <3>1. to.field = "details" /\ to.value \in Text
      BY <2>1
    <3>2. new = [site[t] EXCEPT !["details"] = to.value]
      BY <3>1
    <3>3. QED
      BY <1>3, <3>1, <3>2 DEF SiteRec
  <2>2. CASE to \in [field : {"status"}, value : AnyStatus]
    <3>1. to.field = "status" /\ to.value \in AnyStatus
      BY <2>2
    <3>2. new = [site[t] EXCEPT !["status"] = to.value]
      BY <3>1
    <3>3. QED
      BY <1>3, <3>1, <3>2 DEF SiteRec
  <2>3. QED
    BY <2>1, <2>2 DEF FieldTo
<1>5. /\ site' = [site EXCEPT ![t] = new] /\ Settle(x, t) /\ UNCHANGED <<slot, note>>
  BY <1>2 DEF UpdateTarget
<1> HIDE DEF new
<1>6. OperationsInv'
  BY <1>4, <1>5, SiteWritten
<1>7. site'[t] = new /\ \A q \in Target \ {t} : site'[q] = site[q]
  BY <1>0, <1>5
<1>8. SitesSeen /\ NotesSeen
  BY <1>1, <1>2, <1>3, <1>5, <1>7 DEF SitesSeen, NotesSeen
<1>9. ClosesAlone
  <2>1. SUFFICES ASSUME ~call[x].overtaken, t[1] # "PROJECT", NEW p \in WorkUnderArchived' PROVE p \in WorkUnderArchived
    BY <1>1, <1>2 DEF ClosesAlone
  <2>2. /\ p \in Target /\ p[1] = "PROJECT" /\ site'[p].status \in Unfinished
        /\ site'[ClientFor(p)].status = "ARCHIVED"
    BY DEF WorkUnderArchived, ClientFor
  <2>3. ClientFor(p) \in Target /\ ClientFor(p)[1] = "CLIENT"
    BY <2>2, ClientOf
  <2>4. site[p] = site'[p]
    BY <1>7, <2>1, <2>2
  <2>5. site[ClientFor(p)].status = "ARCHIVED"
    <3>1. CASE ClientFor(p) # t
      BY <1>7, <2>2, <2>3, <3>1
    <3>2. CASE ClientFor(p) = t
      <4>1. CASE to.value = "ARCHIVED"
        <5>1. call[x].checked
          BY <1>1, <1>2, <2>3, <3>2, <4>1 DEF ArchivesClient
        <5>2. UnfinishedProjects(t) = {}
          BY <1>1, <1>2, <2>1, <2>3, <3>2, <4>1, <5>1 DEF UpdateFits
        <5>3. p \in UnfinishedProjects(t)
          BY <2>2, <2>4, <3>2 DEF UnfinishedProjects
        <5>4. QED
          BY <5>2, <5>3
      <4>2. CASE to.value # "ARCHIVED"
        BY <1>4, <1>7, <2>2, <3>2, <4>2
      <4>3. QED
        BY <4>1, <4>2
    <3>3. QED
      BY <3>1, <3>2
  <2>6. QED
    BY <2>2, <2>4, <2>5 DEF WorkUnderArchived
<1>10. QED
  BY <1>6, <1>8, <1>9 DEF OperationsPromise

LEMMA CallSteps ==
  ASSUME OperationsInv, NEW x \in Call, CountProjects(x) \/ Fail(x)
  PROVE  OperationsPromise
<1>1. ASSUME Fail(x) PROVE OperationsPromise
  <2>1. OperationsInv'
    BY <1>1, OneCallMoved, NoRecs DEF Fail
  <2>2. QED
    BY <1>1, <2>1, Quiet DEF Fail
<1>2. ASSUME CountProjects(x) PROVE OperationsPromise
  <2> DEFINE c == [call[x] EXCEPT !.checked = TRUE]
  <2>1. call[x].op = "update" /\ UnfinishedProjects(call[x].row) = {} /\ call[x] # NoOpCall
    BY <1>2 DEF CountProjects, ArchivesClient, NoOpCall
  <2>2. call[x] \in OpCall /\ UpdateFits(call[x])
    BY <2>1 DEF OperationsInv, OperationsRows, OpFits
  <2>3. /\ c \in OpCall /\ c.op = call[x].op /\ c.row = call[x].row /\ c.to = call[x].to /\ c.seen = call[x].seen
        /\ c.fresh = call[x].fresh /\ c.overtaken = call[x].overtaken
    BY <2>2 DEF OpCall
  <2>4. call' = [call EXCEPT ![x] = c] /\ UNCHANGED <<site, slot, note>>
    BY <1>2 DEF CountProjects
  <2> HIDE DEF c
  <2>5. OpFits(c)
    <3>1. UpdateFits(c)
      BY <2>1, <2>2, <2>3 DEF UpdateFits
    <3>2. QED
      BY <2>1, <2>3, <3>1 DEF OpFits
  <2>6. OperationsInv'
    BY <2>3, <2>4, <2>5, OneCallMoved
  <2>7. QED
    BY <2>4, <2>6, Quiet
<1>3. QED
  BY <1>1, <1>2

LEMMA SlotSteps ==
  ASSUME OperationsInv, NEW x \in Call, Attach(x) \/ Detach(x)
  PROVE  OperationsPromise
<1>1. call[x].row \in Slot /\ call[x].to \in {"LIVE", "CLOSED"}
  BY DEF Attach, Detach, OperationsInv, OpFits
<1>2. /\ slot' = [slot EXCEPT ![call[x].row] = call[x].to] /\ Settle(x, call[x].row) /\ UNCHANGED <<site, note>>
  BY DEF Attach, Detach
<1>3. slot' \in [Slot -> {"NONE", "LIVE", "CLOSED"}] /\ note' \in [OpNote -> NoteRec \cup {NoNote}]
  BY <1>1, <1>2 DEF OperationsInv, OperationsRows
<1>4. OperationsInv'
  BY <1>2, <1>3, NoteWritten
<1>5. QED
  BY <1>2, <1>4, Quiet

LEMMA KeptText ==
  ASSUME NEW kept \in Seq(Text), NEW old \in Text, NEW new \in Text
  PROVE  Append(kept, old) \o <<new>> = kept \o <<old, new>>
  OBVIOUS

LEMMA NoteSettled ==
  ASSUME OperationsInv, NEW x \in Call, NEW n \in OpNote, NEW new \in NoteRec,
         note' = [note EXCEPT ![n] = new], UNCHANGED <<site, slot>>, Settle(x, n)
  PROVE  /\ OperationsInv'
         /\ SitesSeen /\ ClosesAlone
         /\ note'[n] = new /\ \A q \in OpNote \ {n} : note'[q] = note[q]
<1>1. note \in [OpNote -> NoteRec \cup {NoNote}] /\ slot \in [Slot -> {"NONE", "LIVE", "CLOSED"}]
  BY DEF OperationsInv, OperationsRows
<1>2. note'[n] = new /\ \A q \in OpNote \ {n} : note'[q] = note[q]
  BY <1>1
<1>3. OperationsInv'
  <2>1. note' \in [OpNote -> NoteRec \cup {NoNote}] /\ slot' \in [Slot -> {"NONE", "LIVE", "CLOSED"}]
    BY <1>1
  <2>2. \A q \in OpNote : note[q] # NoNote => note'[q] # NoNote
    BY <1>2, NoRecs
  <2>3. \A q \in OpNote : q # n => note'[q] = note[q]
    BY <1>2
  <2>4. QED
    BY <2>1, <2>2, <2>3, NoteWritten
<1>4. WorkUnderArchived' = WorkUnderArchived
  BY DEF WorkUnderArchived, ClientFor
<1>5. QED
  BY <1>2, <1>3, <1>4 DEF SitesSeen, ClosesAlone

LEMMA AddNoteStep ==
  ASSUME OperationsInv, NEW x \in Call, AddNote(x)
  PROVE  OperationsPromise
<1>1. call[x].row \in OpNote /\ call[x].to \in NoteRec
  BY DEF AddNote, OperationsInv, OpFits
<1>2. PICK n \in OpNote, new \in NoteRec : n = call[x].row /\ new = call[x].to
  BY <1>1
<1>3. /\ note' = [note EXCEPT ![n] = new] /\ UNCHANGED <<site, slot>> /\ Settle(x, n) /\ note[n] = NoNote
  BY <1>2 DEF AddNote
<1>4. QED
  BY <1>3, NoteSettled DEF OperationsPromise, NotesSeen

LEMMA ChangeNoteSteps ==
  ASSUME OperationsInv, NEW x \in Call, UpdateNote(x) \/ ArchiveNote(x)
  PROVE  OperationsPromise
<1>1. /\ call[x].op \in {"editNote", "archiveNote"} /\ OpFits(call[x]) /\ call[x].fresh
      /\ ~note[call[x].row].archived
  BY DEF UpdateNote, ArchiveNote, Guarded, OperationsInv
<1>2. PICK n \in OpNote : n = call[x].row /\ note[n] # NoNote /\ call[x].seen = note[n]
  BY <1>1 DEF OpFits, NoteFits
<1>3. note[n] \in NoteRec /\ ~note[n].archived /\ note[n].kept \in Seq(Text) /\ note[n].text \in Text
  <2>1. note[n] \in NoteRec
    BY <1>2 DEF OperationsInv, OperationsRows
  <2>2. QED
    BY <1>1, <1>2, <2>1 DEF NoteRec
<1>4. Settle(x, n) /\ UNCHANGED <<site, slot>>
  BY <1>2 DEF UpdateNote, ArchiveNote
<1>5. call[x] # NoOpCall /\ call'[x] = NoOpCall
  <2>1. call'[x] = NoOpCall
    BY <1>4 DEF Settle
  <2>2. QED
    BY <1>1, <2>1 DEF NoOpCall
<1>6. ASSUME NEW new \in NoteRec, note' = [note EXCEPT ![n] = new],
             new.kept \o <<new.text>> \in {note[n].kept \o <<note[n].text>>, note[n].kept \o <<note[n].text, new.text>>}
      PROVE  OperationsPromise
  <2>1. /\ OperationsInv' /\ SitesSeen /\ ClosesAlone
        /\ note'[n] = new /\ \A q \in OpNote \ {n} : note'[q] = note[q]
    BY <1>4, <1>6, NoteSettled
  <2>2. NotesSeen
    BY <1>1, <1>2, <1>3, <1>5, <1>6, <2>1 DEF NotesSeen
  <2>3. QED
    BY <2>1, <2>2 DEF OperationsPromise
<1>7. CASE UpdateNote(x)
  <2> DEFINE text == call[x].to
             kept == Append(note[n].kept, note[n].text)
             new == [note[n] EXCEPT !.kept = kept, !.text = text]
  <2>1. text \in Text
    BY <1>1, <1>7 DEF UpdateNote, OpFits
  <2>2. kept \in Seq(Text)
    BY <1>3
  <2>3. kept \o <<text>> = note[n].kept \o <<note[n].text, text>>
    BY <1>3, <2>1, KeptText
  <2>4. note' = [note EXCEPT ![n] = new]
    BY <1>2, <1>7 DEF UpdateNote
  <2> HIDE DEF text, kept
  <2>5. new \in NoteRec /\ new.kept = kept /\ new.text = text
    BY <1>3, <2>1, <2>2 DEF NoteRec
  <2> HIDE DEF new
  <2>6. QED
    BY <1>6, <2>3, <2>4, <2>5
<1>8. CASE ArchiveNote(x)
  <2> DEFINE new == [note[n] EXCEPT !.archived = TRUE]
  <2>1. call[x].to = TRUE
    BY <1>1, <1>8 DEF ArchiveNote, OpFits
  <2>2. note' = [note EXCEPT ![n] = new]
    BY <1>2, <1>8, <2>1 DEF ArchiveNote
  <2>3. new \in NoteRec /\ new.kept = note[n].kept /\ new.text = note[n].text
    BY <1>3 DEF NoteRec
  <2> HIDE DEF new
  <2>4. QED
    BY <1>6, <2>2, <2>3
<1>9. QED
  BY <1>7, <1>8

LEMMA OperationsStep == OperationsInv /\ [OperationsNext]_operationsVars => OperationsPromise
<1>1. ASSUME OperationsInv, OperationsNext PROVE OperationsPromise
  <2>1. ASSUME NEW x \in Call, NEW a \in Actor, BeginCall(x, a) PROVE OperationsPromise
    <3>1. ASSUME NEW t \in Target,
                 \/ \E status \in AnyStatus : BeginCreate(x, a, t, status) \/ BeginSetStatus(x, a, t, status)
                 \/ \E details \in Text : BeginUpdate(x, a, t, details)
          PROVE  OperationsPromise
      BY <1>1, <3>1, BeginSiteSteps
    <3>2. ASSUME NEW s \in Slot, BeginAttach(x, a, s) \/ BeginDetach(x, a, s) PROVE OperationsPromise
      BY <1>1, <3>2, BeginSlotSteps
    <3>3. ASSUME NEW n \in OpNote,
                 \/ \E t \in Target, text \in Text : BeginNote(x, a, n, t, text)
                 \/ \E text \in Text : BeginEdit(x, a, n, text)
                 \/ BeginArchiveNote(x, a, n)
          PROVE  OperationsPromise
      BY <1>1, <3>3, BeginNoteSteps
    <3>4. QED
      BY <2>1, <3>1, <3>2, <3>3 DEF BeginCall, AnyStatus
  <2>2. QED
    BY <1>1, <2>1, CreateTargetStep, UpdateTargetStep, CallSteps, SlotSteps, AddNoteStep, ChangeNoteSteps
    DEF OperationsNext
<1>2. ASSUME OperationsInv, UNCHANGED operationsVars PROVE OperationsPromise
  <2>1. UNCHANGED <<site, slot, note, call>>
    BY <1>2 DEF operationsVars
  <2>2. OperationsInv'
    <3>1. OperationsRows'
      BY <1>2, <2>1 DEF OperationsInv, OperationsRows
    <3>2. \A y \in Call : OpFits(call[y])'
      BY <1>2, <2>1 DEF OperationsInv, OpFits, CreateFits, UpdateFits, NoteFits, Known, UnfinishedProjects, ClientFor
    <3>3. QED
      BY <3>1, <3>2 DEF OperationsInv
  <2>3. QED
    BY <2>1, <2>2, Quiet
<1>3. QED
  BY <1>1, <1>2

LEMMA OperationsInvAlways == OperationsSpec => []OperationsInv
<1>1. OperationsInv /\ [OperationsNext]_operationsVars => OperationsInv'
  BY OperationsStep DEF OperationsPromise
<1> QED
  BY <1>1, OperationsStart, PTL DEF OperationsSpec

(* Whatever an edit overwrites its author has seen, and the text of a note is *)
(* kept: for any calls in flight, for any clients, projects and notes.       *)
THEOREM EditsAreInformed == OperationsSpec => EditsSeeWhatTheyReplace
<1>1. OperationsInv /\ [OperationsNext]_operationsVars => SitesSeen /\ NotesSeen
  BY OperationsStep DEF OperationsPromise
<1> QED
  BY <1>1, OperationsInvAlways, PTL DEF OperationsSpec, EditsSeeWhatTheyReplace, SitesSeen, NotesSeen

(* A client is archived over unfinished work only by a reopening, or by two  *)
(* calls that overlap.                                                       *)
THEOREM ClosingIsCounted == OperationsSpec => ClientClosesAlone
<1>1. OperationsInv /\ [OperationsNext]_operationsVars => ClosesAlone
  BY OperationsStep DEF OperationsPromise
<1>2. ClientClosesAlone <=> [][ClosesAlone]_operationsVars
  BY DEF ClientClosesAlone, ClosesAlone
<1> QED
  BY <1>1, <1>2, OperationsInvAlways, PTL DEF OperationsSpec

-----------------------------------------------------------------------------
(* Organisation *)

EntryRec == [name : Name, active : BOOLEAN]
OrgStage == {"read", "named"}

(* A call names what it writes; one that has searched for another record of  *)
(* its name still finds none, and no two of them are after the same name.    *)
CallForm(c) ==
  /\ c = [op |-> c.op, target |-> c.target, to |-> c.to, stage |-> c.stage, fresh |-> c.fresh]
  /\ c.stage \in OrgStage
  /\ c.op \in {"create", "rename"} => c.target[2] \in Entry /\ c.to \in Name
  /\ c.stage = "named" => c.op \in {"create", "rename"}
  /\ c.op = "setActive" => c.target[2] \in Entry /\ Exists(c.target[2])
Named(x) == InFlight(x) /\ orgCall[x].stage = "named"
Taken(e, x) == e # EntryOf(x) /\ Exists(e) /\ KindOf[e] = KindOf[EntryOf(x)] /\ entry[e].name = orgCall[x].to

OrganisationInv ==
  /\ entry \in [Entry -> EntryRec \cup {NoEntry}]
  /\ orgCall = [x \in OrgCall |-> orgCall[x]]
  /\ \A x \in OrgCall : InFlight(x) => CallForm(orgCall[x])
  /\ \A x \in OrgCall, e \in Entry : Named(x) => ~Taken(e, x)
  /\ \A x, y \in OrgCall : Named(x) /\ Named(y) /\ x # y =>
       ~(orgCall[x].to = orgCall[y].to /\ KindOf[EntryOf(x)] = KindOf[EntryOf(y)])
  /\ NamesStayUnique

LEMMA NoEntryIsNone == NoEntry \notin EntryRec
  BY DEF NoEntry, EntryRec

LEMMA OrganisationStart == OrganisationInit => OrganisationInv
<1> SUFFICES ASSUME OrganisationInit PROVE OrganisationInv
  OBVIOUS
<1>1. \A x \in OrgCall : ~InFlight(x)
  BY DEF OrganisationInit, InFlight
<1>2. \A e \in Entry : ~Exists(e)
  BY DEF OrganisationInit, Exists
<1>3. QED
  BY <1>1, <1>2 DEF OrganisationInit, OrganisationInv, Named, NamesStayUnique

(* The call y has ended, or only what it has read is behind.                 *)
Remains(y) ==
  \/ orgCall'[y] = NoOrgCall
  \/ /\ InFlight(y)
     /\ orgCall'[y] = [op |-> orgCall[y].op, target |-> orgCall[y].target, to |-> orgCall[y].to,
                       stage |-> orgCall[y].stage, fresh |-> orgCall'[y].fresh]

(* An entry is written, and no call that has searched for its name.          *)
LEMMA EntryWritten ==
  ASSUME OrganisationInv, NEW e \in Entry, NEW new \in EntryRec, entry' = [entry EXCEPT ![e] = new],
         orgCall' = [x \in OrgCall |-> orgCall'[x]], \A y \in OrgCall : Remains(y),
         \A f \in Entry \ {e} : Exists(f) /\ KindOf[f] = KindOf[e] => entry[f].name # new.name,
         \A y \in OrgCall : orgCall'[y] # NoOrgCall /\ Named(y) /\ EntryOf(y) # e /\ KindOf[EntryOf(y)] = KindOf[e] =>
           orgCall[y].to # new.name
  PROVE  OrganisationInv'
<1>1. entry \in [Entry -> EntryRec \cup {NoEntry}]
  BY DEF OrganisationInv
<1>2. entry'[e] = new /\ \A f \in Entry \ {e} : entry'[f] = entry[f]
  BY <1>1
<1>3. Exists(e)' /\ \A f \in Entry : Exists(f) => Exists(f)'
  BY <1>2, NoEntryIsNone DEF Exists
<1>4. \A f \in Entry \ {e} : Exists(f)' <=> Exists(f)
  BY <1>2 DEF Exists
<1>5. ASSUME NEW y \in OrgCall, orgCall'[y] # NoOrgCall
      PROVE  /\ InFlight(y) /\ CallForm(orgCall[y])
             /\ orgCall'[y].op = orgCall[y].op /\ orgCall'[y].target = orgCall[y].target
             /\ orgCall'[y].to = orgCall[y].to /\ orgCall'[y].stage = orgCall[y].stage
             /\ orgCall'[y] = [op |-> orgCall'[y].op, target |-> orgCall'[y].target, to |-> orgCall'[y].to,
                               stage |-> orgCall'[y].stage, fresh |-> orgCall'[y].fresh]
  <2>1. /\ InFlight(y)
        /\ orgCall'[y] = [op |-> orgCall[y].op, target |-> orgCall[y].target, to |-> orgCall[y].to,
                          stage |-> orgCall[y].stage, fresh |-> orgCall'[y].fresh]
    BY <1>5 DEF Remains
  <2>2. CallForm(orgCall[y])
    BY <2>1 DEF OrganisationInv
  <2>3. /\ orgCall'[y].op = orgCall[y].op /\ orgCall'[y].target = orgCall[y].target
        /\ orgCall'[y].to = orgCall[y].to /\ orgCall'[y].stage = orgCall[y].stage
    BY <2>1
  <2>4. QED
    BY <2>1, <2>2, <2>3
<1>6. ASSUME NEW y \in OrgCall, InFlight(y)' PROVE CallForm(orgCall[y])'
  <2>1. orgCall'[y] # NoOrgCall
    BY <1>6 DEF InFlight
  <2>2. QED
    BY <1>3, <1>5, <2>1 DEF CallForm
<1>7. ASSUME NEW y \in OrgCall, Named(y)'
      PROVE  /\ Named(y) /\ orgCall'[y] # NoOrgCall
             /\ EntryOf(y)' = EntryOf(y) /\ orgCall'[y].to = orgCall[y].to /\ EntryOf(y) \in Entry
  <2>1. orgCall'[y] # NoOrgCall /\ orgCall'[y].stage = "named"
    BY <1>7 DEF Named, InFlight
  <2>2. QED
    BY <1>5, <2>1 DEF Named, EntryOf, CallForm
<1>8. ASSUME NEW y \in OrgCall, Named(y)', NEW f \in Entry PROVE ~Taken(f, y)'
  <2>1. ~Taken(f, y)
    BY <1>7, <1>8 DEF OrganisationInv
  <2>2. CASE f = e
    BY <1>2, <1>7, <1>8, <2>2 DEF Taken
  <2>3. CASE f # e
    BY <1>2, <1>4, <1>7, <1>8, <2>1, <2>3 DEF Taken
  <2>4. QED
    BY <2>2, <2>3
<1>9. \A x, y \in OrgCall : Named(x)' /\ Named(y)' /\ x # y =>
        ~(orgCall'[x].to = orgCall'[y].to /\ KindOf[EntryOf(x)'] = KindOf[EntryOf(y)'])
  BY <1>7 DEF OrganisationInv
<1>10. NamesStayUnique'
  <2>1. ASSUME NEW f \in Entry, NEW g \in Entry, f # g, Exists(f)', Exists(g)', KindOf[f] = KindOf[g]
        PROVE  entry'[f].name # entry'[g].name
    <3>1. CASE f # e /\ g # e
      BY <1>2, <1>4, <2>1, <3>1 DEF OrganisationInv, NamesStayUnique
    <3>2. CASE f = e
      BY <1>2, <1>4, <2>1, <3>2
    <3>3. CASE g = e
      BY <1>2, <1>4, <2>1, <3>3
    <3>4. QED
      BY <3>1, <3>2, <3>3
  <2>2. QED
    BY <2>1 DEF NamesStayUnique
<1>11. entry' \in [Entry -> EntryRec \cup {NoEntry}]
  BY <1>1
<1>12. QED
  BY <1>6, <1>8, <1>9, <1>10, <1>11 DEF OrganisationInv

(* No entry is written.                                                      *)
LEMMA CallsRemain ==
  ASSUME OrganisationInv, entry' = entry,
         orgCall' = [x \in OrgCall |-> orgCall'[x]], \A y \in OrgCall : Remains(y)
  PROVE  OrganisationInv'
<1>1. ASSUME NEW y \in OrgCall, InFlight(y)'
      PROVE  /\ InFlight(y) /\ CallForm(orgCall[y])'
             /\ orgCall'[y].target = orgCall[y].target
             /\ orgCall'[y].to = orgCall[y].to /\ orgCall'[y].stage = orgCall[y].stage
  <2>1. /\ InFlight(y)
        /\ orgCall'[y] = [op |-> orgCall[y].op, target |-> orgCall[y].target, to |-> orgCall[y].to,
                          stage |-> orgCall[y].stage, fresh |-> orgCall'[y].fresh]
    BY <1>1 DEF Remains, InFlight
  <2>2. CallForm(orgCall[y])
    BY <2>1 DEF OrganisationInv
  <2>3. /\ orgCall'[y].op = orgCall[y].op /\ orgCall'[y].target = orgCall[y].target
        /\ orgCall'[y].to = orgCall[y].to /\ orgCall'[y].stage = orgCall[y].stage
    BY <2>1
  <2>4. CallForm(orgCall[y])'
    BY <2>1, <2>2, <2>3 DEF CallForm, Exists
  <2>5. QED
    BY <2>1, <2>3, <2>4
<1>2. \A y \in OrgCall : Named(y)' => Named(y) /\ orgCall'[y].to = orgCall[y].to /\ EntryOf(y)' = EntryOf(y)
  BY <1>1 DEF Named, EntryOf
<1>3. \A y \in OrgCall, e \in Entry : Named(y)' => ~Taken(e, y)'
  BY <1>2 DEF OrganisationInv, Taken, Exists
<1>4. \A x, y \in OrgCall : Named(x)' /\ Named(y)' /\ x # y =>
        ~(orgCall'[x].to = orgCall'[y].to /\ KindOf[EntryOf(x)'] = KindOf[EntryOf(y)'])
  BY <1>2 DEF OrganisationInv
<1>5. NamesStayUnique'
  BY DEF OrganisationInv, NamesStayUnique, Exists
<1>6. QED
  BY <1>1, <1>3, <1>4, <1>5 DEF OrganisationInv

(* One call moves on, and whoever is after a name is the only one.           *)
LEMMA OneOrgCall ==
  ASSUME OrganisationInv, entry' = entry, NEW x \in OrgCall, NEW c, CallForm(c), orgCall' = [orgCall EXCEPT ![x] = c],
         c.stage = "named" =>
           /\ \A e \in Entry : ~(e # c.target[2] /\ Exists(e) /\ KindOf[e] = KindOf[c.target[2]] /\ entry[e].name = c.to)
           /\ \A y \in OrgCall : y # x /\ Named(y) => ~(orgCall[y].to = c.to /\ KindOf[EntryOf(y)] = KindOf[c.target[2]])
  PROVE  OrganisationInv'
<1>1. orgCall' = [y \in OrgCall |-> IF y = x THEN c ELSE orgCall[y]]
  BY DEF OrganisationInv
<1>2. orgCall'[x] = c /\ \A y \in OrgCall : y # x => orgCall'[y] = orgCall[y]
  BY <1>1
<1>3. ASSUME NEW y \in OrgCall, InFlight(y)' PROVE CallForm(orgCall[y])'
  <2>1. CallForm(orgCall'[y])
    <3>1. CASE y = x
      BY <1>2, <3>1
    <3>2. CASE y # x
      BY <1>2, <1>3, <3>2 DEF OrganisationInv, InFlight
    <3>3. QED
      BY <3>1, <3>2
  <2>2. QED
    BY <2>1 DEF CallForm, Exists
<1>4. \A y \in OrgCall : y # x /\ Named(y)' =>
        Named(y) /\ orgCall'[y].to = orgCall[y].to /\ EntryOf(y)' = EntryOf(y)
  BY <1>2 DEF Named, InFlight, EntryOf
<1>5. Named(x)' => c.stage = "named" /\ orgCall'[x].to = c.to /\ EntryOf(x)' = c.target[2]
  BY <1>2 DEF Named, EntryOf
<1>6. ASSUME NEW y \in OrgCall, Named(y)', NEW e \in Entry PROVE ~Taken(e, y)'
  <2>1. CASE y = x
    BY <1>5, <1>6, <2>1 DEF Taken, Exists
  <2>2. CASE y # x
    BY <1>4, <1>6, <2>2 DEF OrganisationInv, Taken, Exists
  <2>3. QED
    BY <2>1, <2>2
<1>7. ASSUME NEW y \in OrgCall, NEW z \in OrgCall, Named(y)', Named(z)', y # z
      PROVE  ~(orgCall'[y].to = orgCall'[z].to /\ KindOf[EntryOf(y)'] = KindOf[EntryOf(z)'])
  <2>1. CASE y # x /\ z # x
    BY <1>4, <1>7, <2>1 DEF OrganisationInv
  <2>2. CASE y = x
    BY <1>4, <1>5, <1>7, <2>2
  <2>3. CASE z = x
    BY <1>4, <1>5, <1>7, <2>3
  <2>4. QED
    BY <2>1, <2>2, <2>3
<1>8. NamesStayUnique'
  BY DEF OrganisationInv, NamesStayUnique, Exists
<1>9. QED
  BY <1>1, <1>3, <1>6, <1>7, <1>8 DEF OrganisationInv

(* A call reads what it will write. *)
LEMMA ReadStep ==
  ASSUME OrganisationInv, NEW x \in OrgCall, NEW op, NEW target, NEW to, Read(x, op, target, to),
         op \in {"create", "rename"} => target[2] \in Entry /\ to \in Name,
         op = "setActive" => target[2] \in Entry /\ Exists(target[2])
  PROVE  OrganisationInv'
<1> DEFINE c == [op |-> op, target |-> target, to |-> to, stage |-> "read", fresh |-> TRUE]
<1>1. CallForm(c) /\ c.stage # "named"
  BY DEF CallForm, OrgStage
<1>2. orgCall' = [orgCall EXCEPT ![x] = c] /\ entry' = entry
  BY DEF Read, records
<1> HIDE DEF c
<1>3. QED
  BY <1>1, <1>2, OneOrgCall

LEMMA LockNameStep ==
  ASSUME OrganisationInv, NEW x \in OrgCall, LockName(x), ~Duplicate(x)
  PROVE  OrganisationInv'
<1> DEFINE c == [orgCall[x] EXCEPT !.stage = "named"]
<1>1. Naming(x) /\ InFlight(x) /\ CallForm(orgCall[x]) /\ ~NameLocked(x)
  BY DEF LockName, Naming, OrganisationInv
<1>2. c = [op |-> orgCall[x].op, target |-> orgCall[x].target, to |-> orgCall[x].to,
           stage |-> "named", fresh |-> orgCall[x].fresh]
  BY <1>1 DEF CallForm
<1>3. orgCall' = [orgCall EXCEPT ![x] = c] /\ entry' = entry
  BY DEF LockName, records
<1> HIDE DEF c
<1>4. /\ c.op = orgCall[x].op /\ c.target = orgCall[x].target /\ c.to = orgCall[x].to
      /\ c.stage = "named" /\ c.fresh = orgCall[x].fresh
  BY <1>2
<1>5. CallForm(c)
  BY <1>1, <1>2, <1>4 DEF CallForm, OrgStage, Naming
<1>6. \A e \in Entry : ~(e # c.target[2] /\ Exists(e) /\ KindOf[e] = KindOf[c.target[2]] /\ entry[e].name = c.to)
  BY <1>4 DEF Duplicate, EntryOf
<1>7. ASSUME NEW y \in OrgCall, y # x, Named(y)
      PROVE  ~(orgCall[y].to = c.to /\ KindOf[EntryOf(y)] = KindOf[c.target[2]])
  <2>1. Naming(y) /\ orgCall[y].stage = "named"
    BY <1>7 DEF Named, Naming, OrganisationInv, CallForm
  <2>2. QED
    BY <1>1, <1>4, <1>7, <2>1 DEF NameLocked, EntryOf
<1>8. QED
  BY <1>3, <1>5, <1>6, <1>7, OneOrgCall

LEMMA WrittenRemains ==
  ASSUME OrganisationInv, NEW x \in OrgCall, Written(x)
  PROVE  orgCall' = [y \in OrgCall |-> orgCall'[y]] /\ \A y \in OrgCall : Remains(y) /\ orgCall'[x] = NoOrgCall
<1>1. ASSUME NEW y \in OrgCall PROVE Remains(y)
  <2>1. CASE y = x
    BY <2>1 DEF Written, Remains
  <2>2. CASE y # x /\ ~InFlight(y)
    BY <2>2 DEF Written, Remains, On, InFlight
  <2>3. CASE y # x /\ InFlight(y)
    <3> DEFINE behind == [orgCall[y] EXCEPT !.fresh = FALSE]
    <3>1. CallForm(orgCall[y])
      BY <2>3 DEF OrganisationInv
    <3>2. behind = [op |-> orgCall[y].op, target |-> orgCall[y].target, to |-> orgCall[y].to,
                    stage |-> orgCall[y].stage, fresh |-> FALSE]
      <4>1. PICK op, target, to, stage, fresh :
              orgCall[y] = [op |-> op, target |-> target, to |-> to, stage |-> stage, fresh |-> fresh]
        BY <3>1 DEF CallForm
      <4>2. \A new : [orgCall[y] EXCEPT !.fresh = new]
              = [op |-> op, target |-> target, to |-> to, stage |-> stage, fresh |-> new]
        BY <4>1
      <4>3. behind = [op |-> op, target |-> target, to |-> to, stage |-> stage, fresh |-> FALSE]
        BY <4>2
      <4>4. QED
        BY <4>1, <4>3
    <3>3. orgCall'[y] = behind \/ orgCall'[y] = orgCall[y]
      BY <2>3 DEF Written
    <3>4. orgCall'[y] = behind => orgCall'[y].fresh = FALSE
      BY <3>2
    <3>5. QED
      BY <2>3, <3>1, <3>2, <3>3, <3>4 DEF Remains, CallForm
  <2>4. QED
    BY <2>1, <2>2, <2>3
<1>2. QED
  BY <1>1 DEF Written

LEMMA WriteNameStep ==
  ASSUME OrganisationInv, NEW x \in OrgCall, WriteName(x)
  PROVE  OrganisationInv'
<1>1. Naming(x) /\ InFlight(x) /\ CallForm(orgCall[x]) /\ Named(x) /\ Written(x)
  BY DEF WriteName, Naming, OrganisationInv, Named
<1>2. PICK e \in Entry, n \in Name : e = EntryOf(x) /\ n = orgCall[x].to
  BY <1>1 DEF Naming, CallForm, EntryOf
<1> DEFINE active == Exists(e) => entry[e].active
           new == [name |-> n, active |-> active]
<1>3. new \in EntryRec /\ new.name = n
  <2>1. active \in BOOLEAN
    OBVIOUS
  <2> HIDE DEF active
  <2>2. QED
    BY <2>1 DEF EntryRec
<1>4. entry' = [entry EXCEPT ![e] = new]
  BY <1>2 DEF WriteName
<1> HIDE DEF new
<1>5. orgCall' = [y \in OrgCall |-> orgCall'[y]] /\ \A y \in OrgCall : Remains(y) /\ orgCall'[x] = NoOrgCall
  BY <1>1, WrittenRemains
<1>6. \A f \in Entry \ {e} : Exists(f) /\ KindOf[f] = KindOf[e] => entry[f].name # new.name
  BY <1>1, <1>2, <1>3 DEF OrganisationInv, Taken
<1>7. \A y \in OrgCall : orgCall'[y] # NoOrgCall /\ Named(y) /\ EntryOf(y) # e /\ KindOf[EntryOf(y)] = KindOf[e] =>
        orgCall[y].to # new.name
  BY <1>1, <1>2, <1>3, <1>5 DEF OrganisationInv
<1>8. QED
  BY <1>3, <1>4, <1>5, <1>6, <1>7, EntryWritten

LEMMA WriteEntryActiveStep ==
  ASSUME OrganisationInv, NEW x \in OrgCall, WriteEntryActive(x)
  PROVE  OrganisationInv'
<1>1. InFlight(x) /\ orgCall[x].op = "setActive" /\ CallForm(orgCall[x]) /\ Written(x)
  BY DEF WriteEntryActive, Runs, OrganisationInv
<1>2. PICK e \in Entry : e = EntryOf(x) /\ Exists(e)
  BY <1>1 DEF CallForm, EntryOf
<1>3. entry[e] \in EntryRec
  BY <1>2 DEF OrganisationInv, Exists
<1> DEFINE active == (orgCall[x].to = "active")
           new == [entry[e] EXCEPT !.active = active]
<1>4. active \in BOOLEAN
  OBVIOUS
<1>5. entry' = [entry EXCEPT ![e] = new]
  BY <1>2 DEF WriteEntryActive
<1> HIDE DEF active
<1>6. new \in EntryRec /\ new.name = entry[e].name
  BY <1>3, <1>4 DEF EntryRec
<1> HIDE DEF new
<1>7. orgCall' = [y \in OrgCall |-> orgCall'[y]] /\ \A y \in OrgCall : Remains(y)
  BY <1>1, WrittenRemains
<1>8. \A f \in Entry \ {e} : Exists(f) /\ KindOf[f] = KindOf[e] => entry[f].name # new.name
  BY <1>2, <1>6 DEF OrganisationInv, NamesStayUnique
<1>9. \A y \in OrgCall : Named(y) /\ EntryOf(y) # e /\ KindOf[EntryOf(y)] = KindOf[e] => orgCall[y].to # new.name
  BY <1>2, <1>6 DEF OrganisationInv, Taken
<1>10. \A y \in OrgCall : orgCall'[y] # NoOrgCall /\ Named(y) /\ EntryOf(y) # e /\ KindOf[EntryOf(y)] = KindOf[e] =>
         orgCall[y].to # new.name
  BY <1>9, Zenon
<1>11. QED
  BY <1>2, <1>5, <1>6, <1>7, <1>8, <1>10, EntryWritten

(* The other calls write no entry. *)
LEMMA RefuseStep ==
  ASSUME OrganisationInv, NEW x \in OrgCall, Refuse(x)
  PROVE  OrganisationInv'
<1>1. orgCall' = [orgCall EXCEPT ![x] = NoOrgCall] /\ entry' = entry
  BY DEF Refuse, records
<1>2. \A y \in OrgCall : orgCall'[y] = NoOrgCall \/ orgCall'[y] = orgCall[y]
  BY <1>1 DEF OrganisationInv
<1>3. \A y \in OrgCall : Remains(y)
  <2>1. ASSUME NEW y \in OrgCall, orgCall'[y] # NoOrgCall PROVE Remains(y)
    <3>1. orgCall'[y] = orgCall[y] /\ InFlight(y)
      BY <1>2, <2>1 DEF InFlight
    <3>2. CallForm(orgCall[y])
      BY <3>1 DEF OrganisationInv
    <3>3. QED
      BY <3>1, <3>2 DEF Remains, CallForm
  <2>2. QED
    BY <2>1 DEF Remains
<1>4. orgCall' = [y \in OrgCall |-> orgCall'[y]]
  BY <1>1 DEF OrganisationInv
<1>5. QED
  BY <1>1, <1>3, <1>4, CallsRemain

LEMMA OtherWrites ==
  ASSUME OrganisationInv, NEW x \in OrgCall,
         WriteAssignment(x) \/ WriteProfile(x) \/ WriteEmployeeActive(x) \/ WriteSkill(x) \/ WriteGrant(x)
  PROVE  OrganisationInv'
<1>1. Written(x) /\ entry' = entry
  BY DEF WriteAssignment, WriteProfile, WriteEmployeeActive, WriteSkill, WriteGrant, records
<1>2. orgCall' = [y \in OrgCall |-> orgCall'[y]] /\ \A y \in OrgCall : Remains(y)
  BY <1>1, WrittenRemains
<1>3. QED
  BY <1>1, <1>2, CallsRemain

LEMMA RevokeTeamStep ==
  ASSUME OrganisationInv, NEW x \in OrgCall, NEW m \in Member, NEW t \in EntriesOf("team"), RevokeTeam(x, m, t)
  PROVE  OrganisationInv'
<1>1. /\ entry' = entry
      /\ orgCall' = [y \in OrgCall |->
           IF On(y, <<"grant", m, t>>) THEN [orgCall[y] EXCEPT !.fresh = FALSE] ELSE orgCall[y]]
  BY DEF RevokeTeam
<1>2. ASSUME NEW y \in OrgCall PROVE Remains(y)
  <2>1. CASE ~InFlight(y)
    BY <1>1, <2>1 DEF Remains, On, InFlight
  <2>2. CASE InFlight(y)
    <3>1. CallForm(orgCall[y])
      BY <2>2 DEF OrganisationInv
    <3>2. PICK op, target, to, stage, fresh :
            orgCall[y] = [op |-> op, target |-> target, to |-> to, stage |-> stage, fresh |-> fresh]
      BY <3>1 DEF CallForm
    <3>3. \A new : [orgCall[y] EXCEPT !.fresh = new]
             = [op |-> op, target |-> target, to |-> to, stage |-> stage, fresh |-> new]
      BY <3>2
    <3>4. orgCall'[y] = orgCall[y] \/ orgCall'[y] = [orgCall[y] EXCEPT !.fresh = FALSE]
      BY <1>1
    <3>5. \/ orgCall'[y] = orgCall[y]
          \/ orgCall'[y] = [op |-> op, target |-> target, to |-> to, stage |-> stage, fresh |-> FALSE]
      BY <3>3, <3>4
    <3>6. QED
      BY <2>2, <3>2, <3>5 DEF Remains
  <2>3. QED
    BY <2>1, <2>2
<1>3. orgCall' = [y \in OrgCall |-> orgCall'[y]]
  BY <1>1
<1>4. QED
  BY <1>1, <1>2, <1>3, CallsRemain

LEMMA CatalogueSteps ==
  ASSUME OrganisationInv, NEW x \in OrgCall, CatalogueStep(x)
  PROVE  OrganisationInv'
<1>1. ASSUME NEW e \in Entry, NEW n \in Name, CreateEntry(x, e, n) \/ RenameEntry(x, e, n) PROVE OrganisationInv'
  <2>1. PICK op \in {"create", "rename"} : Read(x, op, <<"entry", e>>, n)
    BY <1>1 DEF CreateEntry, RenameEntry
  <2>2. <<"entry", e>>[2] \in Entry /\ n \in Name /\ op # "setActive"
    OBVIOUS
  <2>3. QED
    BY <2>1, <2>2, ReadStep
<1>2. ASSUME LockName(x) PROVE OrganisationInv'
  BY <1>2, LockNameStep, RefuseStep DEF LockName
<1>3. ASSUME NEW e \in Entry, NEW to \in {"active", "archived"}, SetEntryActive(x, e, to) PROVE OrganisationInv'
  <2>1. Read(x, "setActive", <<"entry", e>>, to) /\ Exists(e)
    BY <1>3 DEF SetEntryActive
  <2>2. <<"entry", e>>[2] = e
    OBVIOUS
  <2>3. QED
    BY <2>1, <2>2, ReadStep
<1>4. QED
  BY <1>1, <1>2, <1>3, WriteNameStep, WriteEntryActiveStep DEF CatalogueStep

LEMMA MemberSteps ==
  ASSUME OrganisationInv, NEW x \in OrgCall, ProfileStep(x) \/ SkillStep(x) \/ GrantStep(x)
  PROVE  OrganisationInv'
<1>1. ASSUME NEW op \in EntryKind \cup {"profile", "employ", "addSkill", "editSkill", "grant"}, NEW target, NEW to,
             Read(x, op, target, to)
      PROVE  OrganisationInv'
  <2>1. op \notin {"create", "rename", "setActive"}
    BY DEF EntryKind
  <2>2. QED
    BY <1>1, <2>1, ReadStep
<1>2. ASSUME NEW m \in Member, NEW e \in Entry, Assign(x, m, e) \/ Remove(x, m, e) PROVE OrganisationInv'
  <2>1. KindOf[e] \in EntryKind
    BY OrganisationAssumption
  <2>2. PICK target, to : Read(x, KindOf[e], target, to)
    BY <1>2 DEF Assign, Remove
  <2>3. QED
    BY <1>1, <2>1, <2>2
<1>3. ASSUME NEW m \in Member, EditProfile(x, m) \/ \E to \in {"active", "inactive"} : SetEmployeeActive(x, m, to)
      PROVE  OrganisationInv'
  BY <1>1, <1>3 DEF EditProfile, SetEmployeeActive
<1>4. ASSUME NEW m \in Member, NEW s \in EntriesOf("skill"),
             AddSkill(x, m, s) \/ EditSkill(x, m, s) \/ \E archived \in BOOLEAN : SetSkillArchived(x, m, s, archived)
      PROVE  OrganisationInv'
  BY <1>1, <1>4 DEF AddSkill, EditSkill, SetSkillArchived
<1>5. ASSUME NEW m \in Member, NEW t \in EntriesOf("team"), GrantTeam(x, m, t) PROVE OrganisationInv'
  BY <1>1, <1>5 DEF GrantTeam
<1>6. QED
  BY <1>2, <1>3, <1>4, <1>5, OtherWrites, RevokeTeamStep DEF ProfileStep, SkillStep, GrantStep

LEMMA OrganisationInvAlways == OrganisationSpec => []OrganisationInv
<1>1. ASSUME OrganisationInv, OrganisationNext PROVE OrganisationInv'
  BY <1>1, CatalogueSteps, MemberSteps, RefuseStep DEF OrganisationNext
<1>2. ASSUME OrganisationInv, UNCHANGED organisationVars PROVE OrganisationInv'
  <2>1. entry' = entry /\ orgCall' = orgCall
    BY <1>2 DEF organisationVars, records
  <2>2. \A y \in OrgCall : Remains(y)
    BY <1>2, <2>1 DEF OrganisationInv, Remains, CallForm, InFlight
  <2>3. QED
    BY <1>2, <2>1, <2>2, CallsRemain DEF OrganisationInv
<1> QED
  BY <1>1, <1>2, OrganisationStart, PTL DEF OrganisationSpec

(* No two records of a kind share a name, however creations, renamings and   *)
(* archivings of any number of records overlap: the lock is on the name and  *)
(* is held from before the search to the end of the transaction.             *)
THEOREM NamesAreUnique == OrganisationSpec => []NamesStayUnique
<1>1. OrganisationInv => NamesStayUnique
  BY DEF OrganisationInv
<1> QED
  BY <1>1, OrganisationInvAlways, PTL
=============================================================================
