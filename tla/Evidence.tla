------------------------------ MODULE Evidence ------------------------------
(***************************************************************************)
(* Employee evidence: certificates, CVs and other documents of one owner,  *)
(* their files in private storage, and their review by super-              *)
(* administrators.                                                         *)
(*                                                                         *)
(* The owner's changes take turns (an advisory lock on the owner); a       *)
(* review does not, it only locks the row.  A version is abstracted to     *)
(* what it decides: whether an item was written since it was read.         *)
(***************************************************************************)
EXTENDS Naturals, FiniteSets

CONSTANTS
  Item, EFile,
  SubmissionKey,
  Submission,  \* how many submissions may be in flight at once (bound)
  Page,        \* how many pages reviewers have open at once (bound)
  MaxText      \* how often the text of an item is changed (bound)

ASSUME EvidenceAssumption == MaxText \in Nat

VARIABLES
  item,        \* employee_evidence
  efile,       \* employee_files, the objects in storage and the uploads in flight
  submission,  \* submissions that found no item with their key
  page         \* what a reviewer's page shows

evidenceVars == <<item, efile, submission, page>>

Kind == {"cv", "other"}
ReviewState == {"unreviewed", "reviewed", "verified"}
Content == [text : 0..MaxText, files : SUBSET EFile]
Nothing == [text |-> 0, files |-> {}]

\* described is no column: what the reviewer had before them when they reviewed.
ItemRec == [kind : Kind, key : SubmissionKey \cup {"no key"}, text : 0..MaxText,
            review : ReviewState, described : Content, archived : BOOLEAN]
NoItem == [kind |-> "none"]
Submitted(i) == item[i] # NoItem
Current(i) == Submitted(i) /\ ~item[i].archived

\* of: the item; replaces: the file to replace, or all of them.  upload: unsure
\* and removed are those of a COMMIT whose answer will not come, before and after
\* the object was removed.  answered is no column: the owner was told.
EFileRec == [object : BOOLEAN, row : {"none", "active", "archived"}, of : Item \cup {"nothing"},
             upload : {"none", "checked", "stored", "unsure", "removed"}, replaces : SUBSET EFile,
             fresh : BOOLEAN, answered : BOOLEAN]
NoEFile == [object |-> FALSE, row |-> "none", of |-> "nothing", upload |-> "none", replaces |-> {},
            fresh |-> FALSE, answered |-> FALSE]
ActiveFiles(i) == {f \in EFile : efile[f].row = "active" /\ efile[f].of = i}
ContentOf(i) == [text |-> item[i].text, files |-> ActiveFiles(i)]

NoSubmission == [stage |-> "none"]
NoPage == [stage |-> "none"]

\* No change of the owner's is between its lock and its commit.
OwnersTurn == \A s \in Submission : submission[s].stage # "locked"
Numbered(i) ==  \* who read the item before now holds a version that is behind
  /\ page' = [p \in Page |-> IF page[p].stage # "none" /\ page[p].of = i
                             THEN [page[p] EXCEPT !.fresh = FALSE] ELSE page[p]]
  /\ submission' = [s \in Submission |-> IF submission[s].stage = "locked" /\ submission[s].old = {i}
                                         THEN [submission[s] EXCEPT !.fresh = FALSE] ELSE submission[s]]
Dated(files, i) ==
  [f \in EFile |-> IF files[f].upload # "none" /\ files[f].of = i THEN [files[f] EXCEPT !.fresh = FALSE] ELSE files[f]]

(***************************************************************************)
(* A new item.  The key is looked up before the owner's lock is taken; a   *)
(* new CV archives the one there is, with the version read under the lock, *)
(* and what that misses is left to the two unique indexes.                 *)
(***************************************************************************)
Submit(s, kind, key) ==
  /\ submission[s] = NoSubmission
  /\ \A i \in Item : Submitted(i) => item[i].key # key \/ key = "no key"
  /\ submission' = [submission EXCEPT ![s] = [stage |-> "unknown", kind |-> kind, key |-> key]]
  /\ UNCHANGED <<item, efile, page>>

ActiveCv == {i \in Item : Current(i) /\ item[i].kind = "cv"}
LockOwner(s) ==
  /\ submission[s].stage = "unknown" /\ OwnersTurn
  /\ submission' = [submission EXCEPT ![s] =
       [stage |-> "locked", kind |-> submission[s].kind, key |-> submission[s].key, fresh |-> TRUE,
        old |-> IF submission[s].kind = "cv" THEN ActiveCv ELSE {}]]
  /\ UNCHANGED <<item, efile, page>>

(* Mutant of UniqueIndexes: nothing but the lookup keeps a key unique. *)
UniqueIndexesNone(s) == TRUE
UniqueIndexes(s) ==
  /\ submission[s].fresh
  /\ submission[s].key # "no key" => \A i \in Item : Submitted(i) => item[i].key # submission[s].key

Create(s, i) ==
  /\ submission[s].stage = "locked" /\ ~Submitted(i) /\ UniqueIndexes(s)
  /\ item' = [j \in Item |->
       IF j = i THEN [kind |-> submission[s].kind, key |-> submission[s].key, text |-> 0,
                      review |-> "unreviewed", described |-> Nothing, archived |-> FALSE]
       ELSE IF j \in submission[s].old /\ submission[s].fresh THEN [item[j] EXCEPT !.archived = TRUE] ELSE item[j]]
  /\ submission' = [submission EXCEPT ![s] = NoSubmission]
  /\ page' = [p \in Page |-> IF page[p].stage # "none" /\ page[p].of \in submission[s].old
                             THEN [page[p] EXCEPT !.fresh = FALSE] ELSE page[p]]
  /\ efile' = [f \in EFile |-> IF efile[f].upload # "none" /\ efile[f].of \in submission[s].old
                               THEN [efile[f] EXCEPT !.fresh = FALSE] ELSE efile[f]]
\* The transaction fails, or the answer is the item found under the key.
GiveUp(s) ==
  /\ submission[s] # NoSubmission
  /\ submission' = [submission EXCEPT ![s] = NoSubmission]
  /\ UNCHANGED <<item, efile, page>>

(***************************************************************************)
(* The owner's changes.  A material change takes the review back.          *)
(***************************************************************************)
(* Mutant of Unreviewed: the item stays reviewed. *)
ReviewKept(old) == old
Unreviewed(old) == [old EXCEPT !.review = "unreviewed", !.described = Nothing]

Update(i) ==
  /\ OwnersTurn /\ Current(i) /\ item[i].text < MaxText
  /\ item' = [item EXCEPT ![i] = [Unreviewed(item[i]) EXCEPT !.text = @ + 1]]
  /\ Numbered(i) /\ efile' = Dated(efile, i)
Archive(i) ==
  /\ OwnersTurn /\ Current(i)
  /\ item' = [item EXCEPT ![i].archived = TRUE]
  /\ Numbered(i) /\ efile' = Dated(efile, i)

(***************************************************************************)
(* Files: checked, stored, then listed.  The object is removed when the    *)
(* transaction that lists it throws, which it also does when the           *)
(* connection breaks while it commits: its row may have been written, or   *)
(* may still be.                                                           *)
(***************************************************************************)
CheckFile(f, i) ==
  /\ efile[f] = NoEFile /\ Current(i)
  /\ \E replaced \in {{}} \cup {{g} : g \in ActiveFiles(i)} :
       efile' = [efile EXCEPT ![f] = [NoEFile EXCEPT !.of = i, !.upload = "checked", !.replaces = replaced, !.fresh = TRUE]]
  /\ UNCHANGED <<item, submission, page>>
PutFile(f) ==
  /\ efile[f].upload = "checked"
  /\ efile' = [efile EXCEPT ![f].upload = "stored", ![f].object = TRUE]
  /\ UNCHANGED <<item, submission, page>>

\* The one file named is archived; when none is, all of them are.
Replaced(f) == IF efile[f].replaces # {} THEN efile[f].replaces ELSE ActiveFiles(efile[f].of)
AttachFile(f) ==
  LET i == efile[f].of
      answered == efile[f].upload = "stored"
      archived == [g \in EFile |-> IF g \in Replaced(f) THEN [efile[g] EXCEPT !.row = "archived"] ELSE efile[g]]
      listed == [archived[f] EXCEPT !.row = "active", !.replaces = {}, !.answered = answered,
                                    !.upload = IF efile[f].upload = "unsure" THEN @ ELSE "none"]
  IN  /\ efile[f].upload \in {"stored", "unsure", "removed"} /\ efile[f].row = "none"
      /\ efile[f].fresh /\ Current(i) /\ OwnersTurn
      /\ efile' = Dated([archived EXCEPT ![f] = listed], i)
      /\ item' = [item EXCEPT ![i] = Unreviewed(item[i])]
      /\ Numbered(i)
\* The connection breaks after the COMMIT was sent.
LoseCommit(f) ==
  /\ efile[f].upload = "stored" /\ efile[f].fresh
  /\ efile' = [efile EXCEPT ![f].upload = "unsure"]
  /\ UNCHANGED <<item, submission, page>>

\* The catch: whatever made the transaction throw, the object goes.
(* Mutant of Discarded: the removal stands in a finally. *)
DiscardedFinally(f) == efile[f].object /\ efile[f].upload # "checked"
Discarded(f) == efile[f].upload \in {"stored", "unsure"}
RemoveFile(f) ==
  /\ Discarded(f)
  /\ efile' = [efile EXCEPT ![f].upload = IF @ = "unsure" /\ efile[f].row = "none" THEN "removed" ELSE "none",
                            ![f].object = FALSE]
  /\ UNCHANGED <<item, submission, page>>
\* The server dies during an upload, or the object cannot be removed, or a
\* COMMIT without an answer is not carried out.
AbandonFile(f) ==
  /\ efile[f].upload # "none"
  /\ efile' = [efile EXCEPT ![f].upload = "none"]
  /\ UNCHANGED <<item, submission, page>>

(***************************************************************************)
(* Reviews.  A page is put together from two reads, the rows first and     *)
(* their files after; it carries the version of the row.                   *)
(***************************************************************************)
ReadRows(p, i) ==
  /\ page[p] = NoPage /\ Current(i)
  /\ page' = [page EXCEPT ![p] = [stage |-> "rows", of |-> i, text |-> item[i].text, files |-> {}, fresh |-> TRUE]]
  /\ UNCHANGED <<item, efile, submission>>
ReadFiles(p) ==
  /\ page[p].stage = "rows"
  /\ page' = [page EXCEPT ![p].stage = "shown", ![p].files = ActiveFiles(page[p].of)]
  /\ UNCHANGED <<item, efile, submission>>
Review(p, state) ==
  LET i == page[p].of IN
  /\ page[p].stage = "shown" /\ page[p].fresh /\ Current(i)
  /\ item' = [item EXCEPT ![i].review = state,
       ![i].described = IF state = "unreviewed" THEN Nothing ELSE [text |-> page[p].text, files |-> page[p].files]]
  /\ Numbered(i) /\ efile' = Dated(efile, i)
ClosePage(p) ==
  /\ page[p] # NoPage
  /\ page' = [page EXCEPT ![p] = NoPage] /\ UNCHANGED <<item, efile, submission>>

EvidenceTypeOK ==
  /\ item \in [Item -> ItemRec \cup {NoItem}] /\ efile \in [EFile -> EFileRec]
  /\ \A s \in Submission : submission[s].stage \in {"none", "unknown", "locked"}
  /\ \A p \in Page : page[p].stage \in {"none", "rows", "shown"}

EvidenceInit ==
  /\ item = [i \in Item |-> NoItem] /\ efile = [f \in EFile |-> NoEFile]
  /\ submission = [s \in Submission |-> NoSubmission] /\ page = [p \in Page |-> NoPage]
EvidenceNext ==
  \/ \E s \in Submission, kind \in Kind, key \in SubmissionKey \cup {"no key"} : Submit(s, kind, key)
  \/ \E s \in Submission : LockOwner(s) \/ GiveUp(s)
  \/ \E s \in Submission, i \in Item : Create(s, i)
  \/ \E i \in Item : Update(i) \/ Archive(i)
  \/ \E f \in EFile, i \in Item : CheckFile(f, i)
  \/ \E f \in EFile : PutFile(f) \/ AttachFile(f) \/ LoseCommit(f) \/ RemoveFile(f) \/ AbandonFile(f)
  \/ \E p \in Page, i \in Item : ReadRows(p, i)
  \/ \E p \in Page : ReadFiles(p) \/ ClosePage(p)
  \/ \E p \in Page, state \in ReviewState : Review(p, state)
EvidenceSpec == EvidenceInit /\ [][EvidenceNext]_evidenceVars

(***************************************************************************)
(* Properties.                                                             *)
(***************************************************************************)

\* A review never claims more than its reviewer saw: what is reviewed or
\* verified has the text and the files that their page showed, although the
\* page was read in two parts and the owner goes on changing the item.
ReviewDescribesContent ==
  \A i \in Item : Submitted(i) /\ item[i].review # "unreviewed" => item[i].described = ContentOf(i)

\* A submission that is sent again, or that races another one of its owner's,
\* adds nothing: one item for a key, one current CV, and the owner is left
\* without a CV only by archiving it, never by a replacement that fails.
OneItemPerKey ==
  \A i, j \in Item : Submitted(i) /\ Submitted(j) /\ item[i].key = item[j].key /\ i # j => item[i].key = "no key"
SubmissionsReplace ==
  [][/\ OneItemPerKey' /\ Cardinality(ActiveCv') <= 1
     /\ ActiveCv # {} /\ ActiveCv' = {} => UNCHANGED submission]_evidenceVars

\* Evidence files implement private file storage: a file whose owner was told
\* that it is attached was listed together with its content and keeps it
\* (EvidenceService.attachFile).
EvidenceListed == {f \in EFile : efile[f].row # "none"}
EvidenceStore == INSTANCE FileStore WITH
  File <- EFile, listed <- EvidenceListed, readable <- {f \in EvidenceListed : efile[f].object},
  answered <- {f \in EvidenceListed : efile[f].answered}
EvidenceFilesAreKept == EvidenceStore!Spec
=============================================================================
