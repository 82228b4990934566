-------------------------------- MODULE Kyc --------------------------------
(***************************************************************************)
(* The verification of one user's identity: modules/kyc/kyc.service.ts,    *)
(* and the two services of administrators that write a user document.      *)
(*                                                                         *)
(* A call is one request on its way through its awaits.  There are no      *)
(* database transactions here: each await is a step, a call may die        *)
(* between two of them, and what it read before may have changed.  The     *)
(* state is spread over three stores: the user document (status and, per   *)
(* kind of document, the file it names), the attachments and their files,  *)
(* and the status cached in Redis.  Histories record which reads were      *)
(* overtaken and which deletions were crossed or cut short.                *)
(***************************************************************************)
EXTENDS Naturals

CONSTANTS
    Calls,   \* requests that can be in progress at the same time
    Files,   \* documents a user may upload
    Kinds,   \* identity, address, selfie
    Kind,    \* Kind[f]: what document f is
    Identity, \* the kind governmentId stands for
    None     \* no file, no cached status

ASSUME KycAssumption ==
    /\ Kind \in [Files -> Kinds]
    /\ Identity \in Kinds
    /\ None \notin Files

VARIABLES
    status,     \* user.kycStatus
    named,      \* named[k]: the file governmentId, proofOfAddress or selfieWithId names
    stored,     \* files that are in the file store
    saved,      \* files that have an Attachments document
    verified,   \* ... with isVerified
    deleted,    \* ... with isDeleted
    cache,      \* the cached status
    call,       \* call[c]: how far call c is
    overtaken,  \* history: calls whose reading of the user has been changed
    behind,     \* history: the cached status may stay wrong until it expires
    crossed,    \* history: files whose deletion met their upload or approval
    torn,       \* history: files whose deletion died on its way
    edited      \* history: files an edit of the user document has named

userVars == <<status, named>>
docVars == <<stored, saved, verified, deleted>>
vars == <<status, named, stored, saved, verified, deleted, cache, call,
          overtaken, behind, crossed, torn, edited>>

Statuses == {"pending", "in_review", "approved", "rejected", "expired"}

\* What getStatus answers: the status, and by the kinds that have a file the
\* level, the steps and the limits.
Payload == [status |-> status, has |-> {k \in Kinds : named[k] # None}]

Idle == [step |-> "idle"]
On(step, f) == [step |-> step, file |-> f]

Goes(c, record) == call' = [call EXCEPT ![c] = record]

\* The calls that have changed the user and not yet invalidated the cache.
Changing == {c \in Calls : call[c].step \in {"approving", "cleared", "written"}}

\* The calls that delete f.
Deleting(f) == {c \in Calls : call[c].step \in {"checked", "unstored", "cleared"}
                              /\ call[c].file = f}

\* The registration (auth.controller.ts) takes files without attachments.
Init ==
    /\ status = "pending"
    /\ named \in [Kinds -> Files \cup {None}]
    /\ \A k \in Kinds : named[k] # None => Kind[named[k]] = k
    /\ stored = {named[k] : k \in Kinds} \ {None}
    /\ saved = {} /\ verified = {} /\ deleted = {}
    /\ cache = None
    /\ call = [c \in Calls |-> Idle]
    /\ overtaken = {} /\ behind = FALSE /\ crossed = {} /\ torn = {} /\ edited = {}

----------------------------------------------------------------------------
(***************************************************************************)
(* Uploads: the file is stored, its attachment is saved, and the user      *)
(* document is made to name it.                                            *)
(***************************************************************************)
UploadFile(c, f) ==
    /\ call[c] = Idle
    /\ f \notin stored \cup saved
    /\ stored' = stored \cup {f}
    /\ Goes(c, On("uploaded", f))
    /\ UNCHANGED <<userVars, saved, verified, deleted, cache, behind, crossed, torn, edited>>

SaveAttachment(c) ==
    /\ call[c].step = "uploaded"
    /\ saved' = saved \cup {call[c].file}
    /\ Goes(c, On("attached", call[c].file))
    /\ UNCHANGED <<userVars, stored, verified, deleted, cache, behind, crossed, torn, edited>>

NameFile(c) ==
    /\ call[c].step = "attached"
    /\ named' = [named EXCEPT ![Kind[call[c].file]] = call[c].file]
    /\ Goes(c, [step |-> "written"])
    /\ UNCHANGED <<status, docVars, cache, behind, crossed, torn, edited>>

----------------------------------------------------------------------------
(***************************************************************************)
(* deleteDocument: refused for a verified document; the file is removed    *)
(* from the store, the user document stops naming any file of that kind,   *)
(* and the attachment is marked.                                           *)
(***************************************************************************)
CheckDocument(c, f) ==
    /\ call[c] = Idle
    /\ f \in saved \ verified
    /\ Goes(c, On("checked", f))
    /\ crossed' = IF \E d \in Calls : call[d] = On("attached", f)
                  THEN crossed \cup {f} ELSE crossed
    /\ UNCHANGED <<userVars, docVars, cache, behind, torn, edited>>

\* Errors of the file store are ignored.
RemoveFile(c) ==
    /\ call[c].step = "checked"
    /\ stored' \in {stored, stored \ {call[c].file}}
    /\ Goes(c, On("unstored", call[c].file))
    /\ UNCHANGED <<userVars, saved, verified, deleted, cache, behind, crossed, torn, edited>>

\* A deletion that leaves the name.
ClearNothing(c) ==
    /\ call[c].step = "unstored"
    /\ Goes(c, On("cleared", call[c].file))
    /\ UNCHANGED <<userVars, docVars, cache, behind, crossed, torn, edited>>

ClearName(c) ==
    /\ call[c].step = "unstored"
    /\ named' = [named EXCEPT ![Kind[call[c].file]] = None]
    /\ Goes(c, On("cleared", call[c].file))
    /\ UNCHANGED <<status, docVars, cache, behind, crossed, torn, edited>>

MarkDeleted(c) ==
    /\ call[c].step = "cleared"
    /\ deleted' = deleted \cup {call[c].file}
    /\ Goes(c, [step |-> "written"])
    /\ UNCHANGED <<userVars, stored, saved, verified, cache, behind, crossed, torn, edited>>

----------------------------------------------------------------------------
(***************************************************************************)
(* The status.  submitVerification and requestReverification read the user *)
(* and then write the status, whatever it has become; administrators write *)
(* it unconditionally.                                                     *)
(***************************************************************************)
Submittable == named[Identity] # None /\ status # "approved"
Reverifiable == status \in {"rejected", "expired"}

\* A submission that does not look at the status.
CheckUserAnyStatus(c) ==
    /\ call[c] = Idle
    /\ \/ named[Identity] # None /\ Goes(c, [step |-> "submitting"])
       \/ Reverifiable /\ Goes(c, [step |-> "reverifying"])
    /\ UNCHANGED <<userVars, docVars, cache, behind, crossed, torn, edited>>

CheckUser(c) ==
    /\ call[c] = Idle
    /\ \/ Submittable /\ Goes(c, [step |-> "submitting"])
       \/ Reverifiable /\ Goes(c, [step |-> "reverifying"])
    /\ UNCHANGED <<userVars, docVars, cache, behind, crossed, torn, edited>>

WriteStatus(c) ==
    /\ \/ call[c].step = "submitting" /\ status' = "in_review"
       \/ call[c].step = "reverifying" /\ status' = "pending"
    /\ Goes(c, [step |-> "written"])
    /\ UNCHANGED <<named, docVars, cache, behind, crossed, torn, edited>>

\* adminReviewKyc: an approval goes on to the documents.
Review(c, st) ==
    /\ call[c] = Idle
    /\ st \in {"approved", "rejected", "pending"}
    /\ status' = st
    /\ Goes(c, [step |-> IF st = "approved" THEN "approving" ELSE "written"])
    /\ UNCHANGED <<named, docVars, cache, behind, crossed, torn, edited>>

\* An approval of every attachment, deleted ones included.
VerifyAll(c) ==
    /\ call[c].step = "approving"
    /\ verified' = verified \cup saved
    /\ crossed' = crossed \cup {f \in saved : Deleting(f) # {}}
    /\ Goes(c, [step |-> "written"])
    /\ UNCHANGED <<userVars, stored, saved, deleted, cache, behind, torn, edited>>

\* An approval of files whose attachment is not saved yet.
VerifyStored(c) ==
    /\ call[c].step = "approving"
    /\ verified' = verified \cup (stored \ deleted)
    /\ crossed' = crossed \cup {f \in stored : Deleting(f) # {}}
    /\ Goes(c, [step |-> "written"])
    /\ UNCHANGED <<userVars, stored, saved, deleted, cache, behind, torn, edited>>

\* updateMany: every attachment of the user that is not deleted.
VerifyDocuments(c) ==
    LET new == saved \ deleted
    IN  /\ call[c].step = "approving"
        /\ verified' = verified \cup new
        /\ crossed' = crossed \cup {f \in new : Deleting(f) # {}}
        /\ Goes(c, [step |-> "written"])
        /\ UNCHANGED <<userVars, stored, saved, deleted, cache, behind, torn, edited>>

\* An update that forgets the cache.
UpdateUserKycSilently(c, st) ==
    /\ call[c] = Idle
    /\ st \in Statuses \ {"in_review"}
    /\ status' = st
    /\ UNCHANGED <<named, docVars, cache, call, behind, crossed, torn, edited>>

\* updateUserKyc.
UpdateUserKyc(c, st) ==
    /\ call[c] = Idle
    /\ st \in Statuses \ {"in_review"}
    /\ status' = st
    /\ Goes(c, [step |-> "written"])
    /\ UNCHANGED <<named, docVars, cache, behind, crossed, torn, edited>>

\* updateUser of both services: an administrator writes any field of the user,
\* the status and the files it names too, and the cached status is not deleted.
UpdateUser(st, names) ==
    /\ \A k \in Kinds : names[k] # None => Kind[names[k]] = k
    /\ status' = st
    /\ named' = names
    /\ edited' = edited \cup ({names[k] : k \in {j \in Kinds : names[j] # named[j]}} \ {None})
    /\ behind' = (behind \/ (cache # None /\ userVars' # userVars))
    /\ UNCHANGED <<docVars, cache, call, crossed, torn>>

----------------------------------------------------------------------------
(***************************************************************************)
(* The cached status.                                                      *)
(***************************************************************************)

\* invalidateKycCache; an error of Redis is logged and nothing else.
Invalidate(c) ==
    /\ call[c].step = "written"
    /\ \/ cache' = None /\ behind' = FALSE
       \/ cache' = cache /\ behind' = (cache # None)
    /\ Goes(c, Idle)
    /\ UNCHANGED <<userVars, docVars, crossed, torn, edited>>

\* getStatus, when nothing is cached: the user is read ...
Miss(c) ==
    /\ call[c] = Idle
    /\ cache = None
    /\ Goes(c, [step |-> "missed"])
    /\ UNCHANGED <<userVars, docVars, cache, behind, crossed, torn, edited>>

ReadUser(c) ==
    /\ call[c].step = "missed"
    /\ Goes(c, [step |-> "filling", payload |-> Payload])
    /\ UNCHANGED <<userVars, docVars, cache, behind, crossed, torn, edited>>

\* ... and the answer cached, unless Redis fails.
Fill(c) ==
    /\ call[c].step = "filling"
    /\ \/ cache' = call[c].payload /\ behind' = (c \in overtaken)
       \/ UNCHANGED <<cache, behind>>
    /\ Goes(c, Idle)
    /\ UNCHANGED <<userVars, docVars, crossed, torn, edited>>

\* The time to live of the cached status.
Expire ==
    /\ cache # None
    /\ cache' = None
    /\ behind' = FALSE
    /\ UNCHANGED <<userVars, docVars, call, crossed, torn, edited>>

\* A call fails at one of its awaits, or its process dies.
Lost(c) ==
    /\ call[c] # Idle
    /\ behind' = (behind \/ (c \in Changing /\ cache # None))
    /\ torn' = IF call[c].step \in {"unstored", "cleared"}
               THEN torn \cup {call[c].file} ELSE torn
    /\ Goes(c, Idle)
    /\ UNCHANGED <<userVars, docVars, cache, crossed, edited>>

Step ==
    \/ \E c \in Calls :
          \/ \E f \in Files : UploadFile(c, f) \/ CheckDocument(c, f)
          \/ SaveAttachment(c)
          \/ NameFile(c)
          \/ RemoveFile(c)
          \/ ClearName(c)
          \/ MarkDeleted(c)
          \/ CheckUser(c)
          \/ WriteStatus(c)
          \/ \E st \in Statuses : Review(c, st) \/ UpdateUserKyc(c, st)
          \/ VerifyDocuments(c)
          \/ Invalidate(c)
          \/ Miss(c)
          \/ ReadUser(c)
          \/ Fill(c)
          \/ Lost(c)
    \/ \E st \in Statuses, names \in [Kinds -> Files \cup {None}] : UpdateUser(st, names)
    \/ Expire

\* The calls that rely on what they have read of the user.
Relying == {c \in Calls : call[c].step \in {"filling", "submitting", "reverifying"}}

\* The history beside a step: the readings that it, or a step before, changed.
Notice ==
    overtaken' = {c \in Relying \cap Relying' : c \in overtaken \/ userVars' # userVars}

Next == Step /\ Notice

Spec == Init /\ [][Next]_vars

----------------------------------------------------------------------------
CallStates ==
    [step : {"idle", "submitting", "reverifying", "approving", "written", "missed"}]
    \cup [step : {"uploaded", "attached", "checked", "unstored", "cleared"}, file : Files]
    \cup [step : {"filling"}, payload : [status : Statuses, has : SUBSET Kinds]]

\* Statuses, names, documents, the cache and the calls keep their form; what is
\* deleted or verified has an attachment.
KycTypeOK ==
    /\ status \in Statuses
    /\ named \in [Kinds -> Files \cup {None}]
    /\ stored \subseteq Files /\ saved \subseteq Files
    /\ verified \subseteq saved /\ deleted \subseteq saved
    /\ cache \in [status : Statuses, has : SUBSET Kinds] \cup {None}
    /\ call \in [Calls -> CallStates]
    /\ overtaken \subseteq Calls
    /\ behind \in BOOLEAN
    /\ crossed \subseteq Files /\ torn \subseteq Files /\ edited \subseteq Files

\* The status a user is shown is the current one, except while a call that
\* changed it is on its way to the cache, and, until the entry expires, after
\* the answer of a read that the change overtook was cached late, after the
\* invalidation failed or was never reached, or after an administrator edited the
\* user document, which invalidates other caches and not this one.
CachedStatusFresh ==
    cache # None => cache = Payload \/ behind \/ Changing # {}

\* governmentId and its like name a file that is there and not deleted, except
\* while its deletion is between the file and the name, after a deletion that
\* began before the upload had named the file, after a deletion that died, and
\* when it was an administrator's edit that named it.
NamedFilesExist ==
    \A f \in {named[k] : k \in Kinds} \ {None} :
        \/ f \in stored \ deleted
        \/ f \in crossed \cup torn \cup edited
        \/ \E c \in Deleting(f) : call[c].step = "unstored"

\* kyc.service.ts:617, "Cannot delete an approved document": what was approved
\* is kept, file and attachment, unless its deletion had begun before.
VerifiedDocumentsKept ==
    verified \ (crossed \cup torn) \subseteq stored \ deleted

\* An approval ends by a decision or an edit of an administrator, or by a call of the user
\* that had read an earlier status.
ApprovalStands ==
    [][(status = "approved" /\ status' # "approved") =>
          \/ \E c \in Calls :
                /\ call'[c] = [step |-> "written"]
                /\ \/ call[c] = Idle
                   \/ c \in overtaken /\ call[c].step \in {"submitting", "reverifying"}
          \/ \E st \in Statuses : UpdateUser(st, named')]_vars
=============================================================================
