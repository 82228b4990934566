----------------------------- MODULE KycProofs -----------------------------
(* Proofs of the invariants of Kyc, for any number of requests, documents    *)
(* and kinds of documents.                                                   *)
EXTENDS Kyc, TLAPS

\* The calls that have removed the file of f and not yet marked it.
Removing(f) == {c \in Deleting(f) : call[c].step \in {"unstored", "cleared"}}

\* What the calls under way rely on.
CallsTell ==
    \A c \in Calls :
        /\ call[c].step = "uploaded" =>
              /\ call[c].file \in stored \ saved
              /\ \A d \in Calls : call[d] = call[c] => d = c
        /\ call[c].step \in {"attached", "checked", "unstored", "cleared"} =>
              call[c].file \in saved
        /\ call[c].step = "attached" =>
              \/ call[c].file \in crossed \cup torn
              \/ call[c].file \in stored \ deleted /\ Deleting(call[c].file) = {}
        /\ call[c].step = "cleared" =>
              \/ call[c].file \in crossed \cup torn \cup edited
              \/ named[Kind[call[c].file]] # call[c].file

\* A name is of its kind; a saved file is in the store, deleted or being
\* deleted; a verified one is not being deleted.
FilesTell ==
    /\ \A k \in Kinds : named[k] # None => Kind[named[k]] = k
    /\ \A f \in saved : f \in stored \cup deleted \cup torn \/ Removing(f) # {}
    /\ \A f \in verified \ crossed : Deleting(f) = {}

\* What a call has read of the user holds, unless it was overtaken.
ReadingsHold ==
    \A c \in Calls \ overtaken :
        /\ call[c].step = "filling" => call[c].payload = Payload
        /\ call[c].step = "submitting" => status # "approved"
        /\ call[c].step = "reverifying" => Reverifiable


\* Every step keeps the types; a deletion marks a file that has an attachment.
LEMMA TypeStep == KycTypeOK /\ CallsTell /\ [Next]_vars => KycTypeOK'
<1> SUFFICES ASSUME KycTypeOK, CallsTell, [Next]_vars PROVE KycTypeOK'
    OBVIOUS
<1> USE KycAssumption DEF KycTypeOK, CallStates, Idle, On, Goes,
       Statuses, userVars, docVars
<1>1. CASE UNCHANGED vars
    BY <1>1 DEF vars
<1>2. CASE Next
    <2> overtaken' \subseteq Calls
        BY <1>2 DEF Next, Notice, Relying
    <2>1. ASSUME NEW c \in Calls, NEW f \in Files, UploadFile(c, f)
          PROVE  KycTypeOK'
        BY <2>1 DEF UploadFile
    <2>2. ASSUME NEW c \in Calls, NEW f \in Files, CheckDocument(c, f)
          PROVE  KycTypeOK'
        BY <2>2 DEF CheckDocument
    <2>3. ASSUME NEW c \in Calls, SaveAttachment(c)
          PROVE  KycTypeOK'
        BY <2>3 DEF SaveAttachment
    <2>4. ASSUME NEW c \in Calls, RemoveFile(c)
          PROVE  KycTypeOK'
        <3> stored' \subseteq Files
            BY <2>4 DEF RemoveFile
        <3> QED
            BY <2>4 DEF RemoveFile
    <2>5. ASSUME NEW c \in Calls, MarkDeleted(c)
          PROVE  KycTypeOK'
        <3> call[c].file \in saved
            BY <2>5 DEF MarkDeleted, CallsTell
        <3> QED
            BY <2>5 DEF MarkDeleted
    <2>6. ASSUME NEW c \in Calls, NameFile(c) \/ ClearName(c)
          PROVE  KycTypeOK'
        BY <2>6 DEF NameFile, ClearName
    <2>7. ASSUME NEW c \in Calls, CheckUser(c) \/ WriteStatus(c)
          PROVE  KycTypeOK'
        BY <2>7 DEF CheckUser, WriteStatus
    <2>8. ASSUME NEW c \in Calls, NEW st \in Statuses, Review(c, st) \/ UpdateUserKyc(c, st)
          PROVE  KycTypeOK'
        BY <2>8 DEF Review, UpdateUserKyc
    <2>9. ASSUME NEW c \in Calls, VerifyDocuments(c)
          PROVE  KycTypeOK'
        BY <2>9 DEF VerifyDocuments
    <2>10. ASSUME NEW c \in Calls, Miss(c)
          PROVE  KycTypeOK'
        BY <2>10 DEF Miss
    <2>11. ASSUME NEW c \in Calls, Invalidate(c)
          PROVE  KycTypeOK'
        <3>1. behind' = FALSE \/ behind' = (cache # None)
            BY <2>11, Zenon DEF Invalidate
        <3>2. (cache # None) \in BOOLEAN
            OBVIOUS
        <3>3. behind' \in BOOLEAN
            BY <3>1, <3>2
        <3> QED
            BY <2>11, <3>3 DEF Invalidate
    <2>12. ASSUME NEW c \in Calls, ReadUser(c)
          PROVE  KycTypeOK'
        <3> Payload \in [status : Statuses, has : SUBSET Kinds]
            BY DEF Payload
        <3> HIDE DEF Payload
        <3> QED
            BY <2>12 DEF ReadUser
    <2>13. ASSUME NEW c \in Calls, Fill(c)
          PROVE  KycTypeOK'
        <3>1. call[c].payload \in [status : Statuses, has : SUBSET Kinds]
            BY <2>13 DEF Fill
        <3>2. cache' \in [status : Statuses, has : SUBSET Kinds] \cup {None}
            BY <2>13, <3>1 DEF Fill
        <3>3. behind' = (c \in overtaken) \/ behind' = behind
            BY <2>13, Zenon DEF Fill
        <3>4. (c \in overtaken) \in BOOLEAN
            OBVIOUS
        <3>5. behind' \in BOOLEAN
            BY <3>3, <3>4
        <3> QED
            BY <2>13, <3>2, <3>5 DEF Fill
    <2>14. ASSUME NEW c \in Calls, Lost(c)
          PROVE  KycTypeOK'
        BY <2>14 DEF Lost
    <2>15. CASE Expire
        BY <2>15 DEF Expire
    <2>16. ASSUME NEW st \in Statuses, NEW names \in [Kinds -> Files \cup {None}],
                  UpdateUser(st, names)
          PROVE  KycTypeOK'
        <3>1. edited' \subseteq Files
            BY <2>16 DEF UpdateUser
        <3>2. behind' \in BOOLEAN
            <4>1. behind' = (behind \/ (cache # None /\ userVars' # userVars))
                BY <2>16, Zenon DEF UpdateUser
            <4> QED
                BY <4>1, Zenon
        <3> QED
            BY <2>16, <3>1, <3>2 DEF UpdateUser
    <2> QED
        BY <1>2, <2>1, <2>2, <2>3, <2>4, <2>5, <2>6, <2>7, <2>8, <2>9, <2>10, <2>11, <2>12, <2>13, <2>14, <2>15, <2>16 DEF Next, Step
<1> QED
    BY <1>1, <1>2

\* A step keeps what the calls under way rely on.
LEMMA CallsStep ==
    KycTypeOK /\ CallsTell /\ FilesTell /\ [Next]_vars => CallsTell'
<1> SUFFICES ASSUME KycTypeOK, CallsTell, FilesTell, [Next]_vars PROVE CallsTell'
    OBVIOUS
<1> USE KycAssumption DEF KycTypeOK, CallStates, Idle, On, Goes,
       userVars, docVars, CallsTell, Deleting
<1>1. CASE UNCHANGED vars
    BY <1>1 DEF vars
<1>2. CASE Next
    <2>1. ASSUME NEW c \in Calls, NEW f \in Files, UploadFile(c, f)
          PROVE  CallsTell'
        BY <2>1 DEF UploadFile
    <2>2. ASSUME NEW c \in Calls, NEW f \in Files, CheckDocument(c, f)
          PROVE  CallsTell'
        BY <2>2 DEF CheckDocument
    <2>3. ASSUME NEW c \in Calls, SaveAttachment(c)
          PROVE  CallsTell'
        BY <2>3 DEF SaveAttachment
    <2>4. ASSUME NEW c \in Calls, NameFile(c)
          PROVE  CallsTell'
        BY <2>4 DEF NameFile
    <2>5. ASSUME NEW c \in Calls, RemoveFile(c)
          PROVE  CallsTell'
        BY <2>5 DEF RemoveFile
    <2>6. ASSUME NEW c \in Calls, ClearName(c)
          PROVE  CallsTell'
        BY <2>6 DEF ClearName
    <2>7. ASSUME NEW c \in Calls, MarkDeleted(c)
          PROVE  CallsTell'
        BY <2>7 DEF MarkDeleted
    <2>8. ASSUME NEW c \in Calls, CheckUser(c)
          PROVE  CallsTell'
        BY <2>8 DEF CheckUser
    <2>9. ASSUME NEW c \in Calls, WriteStatus(c)
          PROVE  CallsTell'
        BY <2>9 DEF WriteStatus
    <2>10. ASSUME NEW c \in Calls, NEW st \in Statuses, Review(c, st)
          PROVE  CallsTell'
        BY <2>10 DEF Review
    <2>11. ASSUME NEW c \in Calls, NEW st \in Statuses, UpdateUserKyc(c, st)
          PROVE  CallsTell'
        BY <2>11 DEF UpdateUserKyc
    <2>12. ASSUME NEW c \in Calls, VerifyDocuments(c)
          PROVE  CallsTell'
        BY <2>12 DEF VerifyDocuments
    <2>13. ASSUME NEW c \in Calls, Invalidate(c)
          PROVE  CallsTell'
        BY <2>13 DEF Invalidate
    <2>14. ASSUME NEW c \in Calls, Miss(c)
          PROVE  CallsTell'
        BY <2>14 DEF Miss
    <2>15. ASSUME NEW c \in Calls, ReadUser(c)
          PROVE  CallsTell'
        BY <2>15 DEF ReadUser
    <2>16. ASSUME NEW c \in Calls, Fill(c)
          PROVE  CallsTell'
        BY <2>16 DEF Fill
    <2>17. ASSUME NEW c \in Calls, Lost(c)
          PROVE  CallsTell'
        BY <2>17 DEF Lost
    <2>18. CASE Expire
        BY <2>18 DEF Expire
    <2>19. ASSUME NEW st \in Statuses, NEW names \in [Kinds -> Files \cup {None}],
                  UpdateUser(st, names)
          PROVE  CallsTell'
        BY <2>19 DEF UpdateUser
    <2> QED
        BY <1>2, <2>1, <2>2, <2>3, <2>4, <2>5, <2>6, <2>7, <2>8, <2>9, <2>10, <2>11, <2>12, <2>13, <2>14, <2>15, <2>16, <2>17, <2>18, <2>19 DEF Next, Step
<1> QED
    BY <1>1, <1>2

\* A step keeps what is known of names, files and deletions.
LEMMA FilesStep ==
    KycTypeOK /\ CallsTell /\ FilesTell /\ [Next]_vars => FilesTell'
<1> SUFFICES ASSUME KycTypeOK, CallsTell, FilesTell, [Next]_vars PROVE FilesTell'
    OBVIOUS
<1> USE KycAssumption DEF KycTypeOK, CallStates, Idle, On, Goes,
       userVars, docVars, CallsTell, FilesTell, Deleting, Removing
<1>1. CASE UNCHANGED vars
    BY <1>1 DEF vars
<1>2. CASE Next
    <2>1. ASSUME NEW c \in Calls, NEW f \in Files, UploadFile(c, f)
          PROVE  FilesTell'
        BY <2>1 DEF UploadFile
    <2>2. ASSUME NEW c \in Calls, NEW f \in Files, CheckDocument(c, f)
          PROVE  FilesTell'
        BY <2>2 DEF CheckDocument
    <2>3. ASSUME NEW c \in Calls, SaveAttachment(c)
          PROVE  FilesTell'
        BY <2>3 DEF SaveAttachment
    <2>4. ASSUME NEW c \in Calls, NameFile(c)
          PROVE  FilesTell'
        BY <2>4 DEF NameFile
    <2>5. ASSUME NEW c \in Calls, RemoveFile(c)
          PROVE  FilesTell'
        BY <2>5 DEF RemoveFile
    <2>6. ASSUME NEW c \in Calls, ClearName(c)
          PROVE  FilesTell'
        BY <2>6 DEF ClearName
    <2>7. ASSUME NEW c \in Calls, MarkDeleted(c)
          PROVE  FilesTell'
        BY <2>7 DEF MarkDeleted
    <2>8. ASSUME NEW c \in Calls, CheckUser(c)
          PROVE  FilesTell'
        BY <2>8 DEF CheckUser
    <2>9. ASSUME NEW c \in Calls, WriteStatus(c)
          PROVE  FilesTell'
        BY <2>9 DEF WriteStatus
    <2>10. ASSUME NEW c \in Calls, NEW st \in Statuses, Review(c, st)
          PROVE  FilesTell'
        BY <2>10 DEF Review
    <2>11. ASSUME NEW c \in Calls, NEW st \in Statuses, UpdateUserKyc(c, st)
          PROVE  FilesTell'
        BY <2>11 DEF UpdateUserKyc
    <2>12. ASSUME NEW c \in Calls, VerifyDocuments(c)
          PROVE  FilesTell'
        BY <2>12 DEF VerifyDocuments
    <2>13. ASSUME NEW c \in Calls, Invalidate(c)
          PROVE  FilesTell'
        BY <2>13 DEF Invalidate
    <2>14. ASSUME NEW c \in Calls, Miss(c)
          PROVE  FilesTell'
        BY <2>14 DEF Miss
    <2>15. ASSUME NEW c \in Calls, ReadUser(c)
          PROVE  FilesTell'
        BY <2>15 DEF ReadUser
    <2>16. ASSUME NEW c \in Calls, Fill(c)
          PROVE  FilesTell'
        BY <2>16 DEF Fill
    <2>17. ASSUME NEW c \in Calls, Lost(c)
          PROVE  FilesTell'
        BY <2>17 DEF Lost
    <2>18. CASE Expire
        BY <2>18 DEF Expire
    <2>19. ASSUME NEW st \in Statuses, NEW names \in [Kinds -> Files \cup {None}],
                  UpdateUser(st, names)
          PROVE  FilesTell'
        BY <2>19 DEF UpdateUser
    <2> QED
        BY <1>2, <2>1, <2>2, <2>3, <2>4, <2>5, <2>6, <2>7, <2>8, <2>9, <2>10, <2>11, <2>12, <2>13, <2>14, <2>15, <2>16, <2>17, <2>18, <2>19 DEF Next, Step
<1> QED
    BY <1>1, <1>2

\* A step leaves no name of a file that is gone: a deletion clears the name
\* before it marks the attachment, and an upload it crossed is recorded.
LEMMA NamesStep ==
    KycTypeOK /\ CallsTell /\ FilesTell /\ NamedFilesExist /\ [Next]_vars => NamedFilesExist'
<1> SUFFICES ASSUME KycTypeOK, CallsTell, FilesTell, NamedFilesExist, [Next]_vars PROVE NamedFilesExist'
    OBVIOUS
<1> USE KycAssumption DEF KycTypeOK, CallStates, Idle, On, Goes,
       userVars, docVars, CallsTell, FilesTell, NamedFilesExist, Deleting
<1>1. CASE UNCHANGED vars
    BY <1>1 DEF vars
<1>2. CASE Next
    <2>1. ASSUME NEW c \in Calls, NEW f \in Files, UploadFile(c, f)
          PROVE  NamedFilesExist'
        BY <2>1 DEF UploadFile
    <2>2. ASSUME NEW c \in Calls, NEW f \in Files, CheckDocument(c, f)
          PROVE  NamedFilesExist'
        BY <2>2 DEF CheckDocument
    <2>3. ASSUME NEW c \in Calls, SaveAttachment(c)
          PROVE  NamedFilesExist'
        BY <2>3 DEF SaveAttachment
    <2>4. ASSUME NEW c \in Calls, NameFile(c)
          PROVE  NamedFilesExist'
        BY <2>4 DEF NameFile
    <2>5. ASSUME NEW c \in Calls, RemoveFile(c)
          PROVE  NamedFilesExist'
        BY <2>5 DEF RemoveFile
    <2>6. ASSUME NEW c \in Calls, ClearName(c)
          PROVE  NamedFilesExist'
        BY <2>6 DEF ClearName
    <2>7. ASSUME NEW c \in Calls, MarkDeleted(c)
          PROVE  NamedFilesExist'
        BY <2>7 DEF MarkDeleted
    <2>8. ASSUME NEW c \in Calls, CheckUser(c)
          PROVE  NamedFilesExist'
        BY <2>8 DEF CheckUser
    <2>9. ASSUME NEW c \in Calls, WriteStatus(c)
          PROVE  NamedFilesExist'
        BY <2>9 DEF WriteStatus
    <2>10. ASSUME NEW c \in Calls, NEW st \in Statuses, Review(c, st)
          PROVE  NamedFilesExist'
        BY <2>10 DEF Review
    <2>11. ASSUME NEW c \in Calls, NEW st \in Statuses, UpdateUserKyc(c, st)
          PROVE  NamedFilesExist'
        BY <2>11 DEF UpdateUserKyc
    <2>12. ASSUME NEW c \in Calls, VerifyDocuments(c)
          PROVE  NamedFilesExist'
        BY <2>12 DEF VerifyDocuments
    <2>13. ASSUME NEW c \in Calls, Invalidate(c)
          PROVE  NamedFilesExist'
        BY <2>13 DEF Invalidate
    <2>14. ASSUME NEW c \in Calls, Miss(c)
          PROVE  NamedFilesExist'
        BY <2>14 DEF Miss
    <2>15. ASSUME NEW c \in Calls, ReadUser(c)
          PROVE  NamedFilesExist'
        BY <2>15 DEF ReadUser
    <2>16. ASSUME NEW c \in Calls, Fill(c)
          PROVE  NamedFilesExist'
        BY <2>16 DEF Fill
    <2>17. ASSUME NEW c \in Calls, Lost(c)
          PROVE  NamedFilesExist'
        BY <2>17 DEF Lost
    <2>18. CASE Expire
        BY <2>18 DEF Expire
    <2>19. ASSUME NEW st \in Statuses, NEW names \in [Kinds -> Files \cup {None}],
                  UpdateUser(st, names)
          PROVE  NamedFilesExist'
        BY <2>19 DEF UpdateUser
    <2> QED
        BY <1>2, <2>1, <2>2, <2>3, <2>4, <2>5, <2>6, <2>7, <2>8, <2>9, <2>10, <2>11, <2>12, <2>13, <2>14, <2>15, <2>16, <2>17, <2>18, <2>19 DEF Next, Step
<1> QED
    BY <1>1, <1>2

\* A step deletes no verified document, but for a deletion that had begun.
LEMMA VerifiedStep ==
    KycTypeOK /\ CallsTell /\ FilesTell /\ VerifiedDocumentsKept /\ [Next]_vars => VerifiedDocumentsKept'
<1> SUFFICES ASSUME KycTypeOK, CallsTell, FilesTell, VerifiedDocumentsKept, [Next]_vars PROVE VerifiedDocumentsKept'
    OBVIOUS
<1> USE KycAssumption DEF KycTypeOK, CallStates, Idle, On, Goes,
       userVars, docVars, CallsTell, FilesTell, VerifiedDocumentsKept, Deleting, Removing
<1>1. CASE UNCHANGED vars
    BY <1>1 DEF vars
<1>2. CASE Next
    <2>1. ASSUME NEW c \in Calls, NEW f \in Files, UploadFile(c, f)
          PROVE  VerifiedDocumentsKept'
        BY <2>1 DEF UploadFile
    <2>2. ASSUME NEW c \in Calls, NEW f \in Files, CheckDocument(c, f)
          PROVE  VerifiedDocumentsKept'
        BY <2>2 DEF CheckDocument
    <2>3. ASSUME NEW c \in Calls, SaveAttachment(c)
          PROVE  VerifiedDocumentsKept'
        BY <2>3 DEF SaveAttachment
    <2>4. ASSUME NEW c \in Calls, NameFile(c)
          PROVE  VerifiedDocumentsKept'
        BY <2>4 DEF NameFile
    <2>5. ASSUME NEW c \in Calls, RemoveFile(c)
          PROVE  VerifiedDocumentsKept'
        BY <2>5 DEF RemoveFile
    <2>6. ASSUME NEW c \in Calls, ClearName(c)
          PROVE  VerifiedDocumentsKept'
        BY <2>6 DEF ClearName
    <2>7. ASSUME NEW c \in Calls, MarkDeleted(c)
          PROVE  VerifiedDocumentsKept'
        BY <2>7 DEF MarkDeleted
    <2>8. ASSUME NEW c \in Calls, CheckUser(c)
          PROVE  VerifiedDocumentsKept'
        BY <2>8 DEF CheckUser
    <2>9. ASSUME NEW c \in Calls, WriteStatus(c)
          PROVE  VerifiedDocumentsKept'
        BY <2>9 DEF WriteStatus
    <2>10. ASSUME NEW c \in Calls, NEW st \in Statuses, Review(c, st)
          PROVE  VerifiedDocumentsKept'
        BY <2>10 DEF Review
    <2>11. ASSUME NEW c \in Calls, NEW st \in Statuses, UpdateUserKyc(c, st)
          PROVE  VerifiedDocumentsKept'
        BY <2>11 DEF UpdateUserKyc
    <2>12. ASSUME NEW c \in Calls, VerifyDocuments(c)
          PROVE  VerifiedDocumentsKept'
        BY <2>12 DEF VerifyDocuments
    <2>13. ASSUME NEW c \in Calls, Invalidate(c)
          PROVE  VerifiedDocumentsKept'
        BY <2>13 DEF Invalidate
    <2>14. ASSUME NEW c \in Calls, Miss(c)
          PROVE  VerifiedDocumentsKept'
        BY <2>14 DEF Miss
    <2>15. ASSUME NEW c \in Calls, ReadUser(c)
          PROVE  VerifiedDocumentsKept'
        BY <2>15 DEF ReadUser
    <2>16. ASSUME NEW c \in Calls, Fill(c)
          PROVE  VerifiedDocumentsKept'
        BY <2>16 DEF Fill
    <2>17. ASSUME NEW c \in Calls, Lost(c)
          PROVE  VerifiedDocumentsKept'
        BY <2>17 DEF Lost
    <2>18. CASE Expire
        BY <2>18 DEF Expire
    <2>19. ASSUME NEW st \in Statuses, NEW names \in [Kinds -> Files \cup {None}],
                  UpdateUser(st, names)
          PROVE  VerifiedDocumentsKept'
        BY <2>19 DEF UpdateUser
    <2> QED
        BY <1>2, <2>1, <2>2, <2>3, <2>4, <2>5, <2>6, <2>7, <2>8, <2>9, <2>10, <2>11, <2>12, <2>13, <2>14, <2>15, <2>16, <2>17, <2>18, <2>19 DEF Next, Step
<1> QED
    BY <1>1, <1>2

\* A step that makes the cached status wrong leaves a call that will delete it,
\* or the record that none will.
LEMMA CacheStep ==
    KycTypeOK /\ ReadingsHold /\ CachedStatusFresh /\ [Next]_vars => CachedStatusFresh'
<1> SUFFICES ASSUME KycTypeOK, ReadingsHold, CachedStatusFresh, [Next]_vars PROVE CachedStatusFresh'
    OBVIOUS
<1> USE KycAssumption DEF KycTypeOK, CallStates, Idle, On, Goes,
       userVars, docVars, CachedStatusFresh, ReadingsHold, Changing, Payload
<1>1. CASE UNCHANGED vars
    BY <1>1 DEF vars
<1>2. CASE Next
    <2>1. ASSUME NEW c \in Calls, NEW f \in Files, UploadFile(c, f)
          PROVE  CachedStatusFresh'
        BY <2>1 DEF UploadFile
    <2>2. ASSUME NEW c \in Calls, NEW f \in Files, CheckDocument(c, f)
          PROVE  CachedStatusFresh'
        BY <2>2 DEF CheckDocument
    <2>3. ASSUME NEW c \in Calls, SaveAttachment(c)
          PROVE  CachedStatusFresh'
        BY <2>3 DEF SaveAttachment
    <2>4. ASSUME NEW c \in Calls, NameFile(c)
          PROVE  CachedStatusFresh'
        BY <2>4 DEF NameFile
    <2>5. ASSUME NEW c \in Calls, RemoveFile(c)
          PROVE  CachedStatusFresh'
        BY <2>5 DEF RemoveFile
    <2>6. ASSUME NEW c \in Calls, ClearName(c)
          PROVE  CachedStatusFresh'
        BY <2>6 DEF ClearName
    <2>7. ASSUME NEW c \in Calls, MarkDeleted(c)
          PROVE  CachedStatusFresh'
        BY <2>7 DEF MarkDeleted
    <2>8. ASSUME NEW c \in Calls, CheckUser(c)
          PROVE  CachedStatusFresh'
        BY <2>8 DEF CheckUser
    <2>9. ASSUME NEW c \in Calls, WriteStatus(c)
          PROVE  CachedStatusFresh'
        BY <2>9 DEF WriteStatus
    <2>10. ASSUME NEW c \in Calls, NEW st \in Statuses, Review(c, st)
          PROVE  CachedStatusFresh'
        BY <2>10 DEF Review
    <2>11. ASSUME NEW c \in Calls, NEW st \in Statuses, UpdateUserKyc(c, st)
          PROVE  CachedStatusFresh'
        BY <2>11 DEF UpdateUserKyc
    <2>12. ASSUME NEW c \in Calls, VerifyDocuments(c)
          PROVE  CachedStatusFresh'
        BY <2>12 DEF VerifyDocuments
    <2>13. ASSUME NEW c \in Calls, Invalidate(c)
          PROVE  CachedStatusFresh'
        BY <2>13 DEF Invalidate
    <2>14. ASSUME NEW c \in Calls, Miss(c)
          PROVE  CachedStatusFresh'
        BY <2>14 DEF Miss
    <2>15. ASSUME NEW c \in Calls, ReadUser(c)
          PROVE  CachedStatusFresh'
        BY <2>15 DEF ReadUser
    <2>16. ASSUME NEW c \in Calls, Fill(c)
          PROVE  CachedStatusFresh'
        BY <2>16 DEF Fill
    <2>17. ASSUME NEW c \in Calls, Lost(c)
          PROVE  CachedStatusFresh'
        BY <2>17 DEF Lost
    <2>18. CASE Expire
        BY <2>18 DEF Expire
    <2>19. ASSUME NEW st \in Statuses, NEW names \in [Kinds -> Files \cup {None}],
                  UpdateUser(st, names)
          PROVE  CachedStatusFresh'
        <3>1. CASE cache # None /\ userVars' # userVars
            <4>1. behind'
                BY <2>19, <3>1, Zenon DEF UpdateUser
            <4> QED
                BY <4>1
        <3>2. CASE cache = None
            BY <2>19, <3>2 DEF UpdateUser
        <3>3. CASE userVars' = userVars
            <4>1. behind' = behind
                BY <2>19, <3>3, Zenon DEF UpdateUser
            <4>2. status' = status /\ named' = named /\ cache' = cache /\ call' = call
                BY <2>19, <3>3 DEF UpdateUser
            <4> QED
                BY <4>1, <4>2
        <3> QED
            BY <3>1, <3>2, <3>3
    <2> QED
        BY <1>2, <2>1, <2>2, <2>3, <2>4, <2>5, <2>6, <2>7, <2>8, <2>9, <2>10, <2>11, <2>12, <2>13, <2>14, <2>15, <2>16, <2>17, <2>18, <2>19 DEF Next, Step
<1> QED
    BY <1>1, <1>2

\* A step that changes what a call has read records the call as overtaken.
LEMMA ReadingsStep ==
    KycTypeOK /\ ReadingsHold /\ [Next]_vars => ReadingsHold'
<1> SUFFICES ASSUME KycTypeOK, ReadingsHold, [Next]_vars PROVE ReadingsHold'
    OBVIOUS
<1> USE KycAssumption DEF KycTypeOK, CallStates, Idle, On, Goes,
       userVars, docVars, ReadingsHold, Payload,
       Relying, Notice, Submittable, Reverifiable
<1>1. CASE UNCHANGED vars
    BY <1>1 DEF vars
<1>2. CASE Next
    <2>0. Notice
        BY <1>2 DEF Next
    <2>1. ASSUME NEW c \in Calls, NEW f \in Files, UploadFile(c, f)
          PROVE  ReadingsHold'
        BY <2>1, <2>0 DEF UploadFile
    <2>2. ASSUME NEW c \in Calls, NEW f \in Files, CheckDocument(c, f)
          PROVE  ReadingsHold'
        BY <2>2, <2>0 DEF CheckDocument
    <2>3. ASSUME NEW c \in Calls, SaveAttachment(c)
          PROVE  ReadingsHold'
        BY <2>3, <2>0 DEF SaveAttachment
    <2>4. ASSUME NEW c \in Calls, NameFile(c)
          PROVE  ReadingsHold'
        BY <2>4, <2>0 DEF NameFile
    <2>5. ASSUME NEW c \in Calls, RemoveFile(c)
          PROVE  ReadingsHold'
        BY <2>5, <2>0 DEF RemoveFile
    <2>6. ASSUME NEW c \in Calls, ClearName(c)
          PROVE  ReadingsHold'
        BY <2>6, <2>0 DEF ClearName
    <2>7. ASSUME NEW c \in Calls, MarkDeleted(c)
          PROVE  ReadingsHold'
        BY <2>7, <2>0 DEF MarkDeleted
    <2>8. ASSUME NEW c \in Calls, CheckUser(c)
          PROVE  ReadingsHold'
        BY <2>8, <2>0 DEF CheckUser
    <2>9. ASSUME NEW c \in Calls, WriteStatus(c)
          PROVE  ReadingsHold'
        BY <2>9, <2>0 DEF WriteStatus
    <2>10. ASSUME NEW c \in Calls, NEW st \in Statuses, Review(c, st)
          PROVE  ReadingsHold'
        BY <2>10, <2>0 DEF Review
    <2>11. ASSUME NEW c \in Calls, NEW st \in Statuses, UpdateUserKyc(c, st)
          PROVE  ReadingsHold'
        BY <2>11, <2>0 DEF UpdateUserKyc
    <2>12. ASSUME NEW c \in Calls, VerifyDocuments(c)
          PROVE  ReadingsHold'
        BY <2>12, <2>0 DEF VerifyDocuments
    <2>13. ASSUME NEW c \in Calls, Invalidate(c)
          PROVE  ReadingsHold'
        BY <2>13, <2>0 DEF Invalidate
    <2>14. ASSUME NEW c \in Calls, Miss(c)
          PROVE  ReadingsHold'
        BY <2>14, <2>0 DEF Miss
    <2>15. ASSUME NEW c \in Calls, ReadUser(c)
          PROVE  ReadingsHold'
        BY <2>15, <2>0 DEF ReadUser
    <2>16. ASSUME NEW c \in Calls, Fill(c)
          PROVE  ReadingsHold'
        BY <2>16, <2>0 DEF Fill
    <2>17. ASSUME NEW c \in Calls, Lost(c)
          PROVE  ReadingsHold'
        BY <2>17, <2>0 DEF Lost
    <2>18. CASE Expire
        BY <2>18, <2>0 DEF Expire
    <2>19. ASSUME NEW st \in Statuses, NEW names \in [Kinds -> Files \cup {None}],
                  UpdateUser(st, names)
          PROVE  ReadingsHold'
        BY <2>19, <2>0 DEF UpdateUser
    <2> QED
        BY <1>2, <2>1, <2>2, <2>3, <2>4, <2>5, <2>6, <2>7, <2>8, <2>9, <2>10, <2>11, <2>12, <2>13, <2>14, <2>15, <2>16, <2>17, <2>18, <2>19 DEF Next, Step
<1> QED
    BY <1>1, <1>2

----------------------------------------------------------------------------
IInv == /\ KycTypeOK /\ CallsTell /\ FilesTell /\ ReadingsHold
        /\ NamedFilesExist /\ VerifiedDocumentsKept /\ CachedStatusFresh

\* At the start there are no attachments, no calls and no cached status.
LEMMA InitIInv == Init => IInv
<1> SUFFICES ASSUME Init PROVE IInv
    OBVIOUS
<1> USE KycAssumption DEF Init, Idle
<1>1. KycTypeOK
    BY DEF KycTypeOK, CallStates, Statuses
<1>2. CallsTell /\ ReadingsHold
    BY DEF CallsTell, ReadingsHold
<1>3. FilesTell
    BY DEF FilesTell
<1>4. NamedFilesExist
    BY DEF NamedFilesExist
<1>5. VerifiedDocumentsKept /\ CachedStatusFresh
    BY DEF VerifiedDocumentsKept, CachedStatusFresh
<1> QED
    BY <1>1, <1>2, <1>3, <1>4, <1>5 DEF IInv

LEMMA InductiveInvariant == Spec => []IInv
<1>1. IInv /\ [Next]_vars => IInv'
    BY TypeStep, CallsStep, FilesStep, NamesStep, VerifiedStep, CacheStep, ReadingsStep DEF IInv
<1> QED
    BY <1>1, InitIInv, PTL DEF Spec

\* Statuses, names, documents, the cache and the calls of the verification keep
\* their form.
THEOREM KycTypeCorrect == Spec => []KycTypeOK
<1>1. IInv => KycTypeOK
    BY DEF IInv
<1> QED
    BY <1>1, InductiveInvariant, PTL

\* The cached status is the current one, but for a call on its way to the
\* cache, a late answer, a lost invalidation, and an edit of the user document,
\* which invalidates nothing.
THEOREM CacheProved == Spec => []CachedStatusFresh
<1>1. IInv => CachedStatusFresh
    BY DEF IInv
<1> QED
    BY <1>1, InductiveInvariant, PTL

\* The files the user document names are there, but for deletions that crossed
\* their upload or were cut short, and for names an administrator wrote.
THEOREM NamesProved == Spec => []NamedFilesExist
<1>1. IInv => NamedFilesExist
    BY DEF IInv
<1> QED
    BY <1>1, InductiveInvariant, PTL

\* Verified documents are kept, but for deletions that had begun before.
THEOREM DocumentsKept == Spec => []VerifiedDocumentsKept
<1>1. IInv => VerifiedDocumentsKept
    BY DEF IInv
<1> QED
    BY <1>1, InductiveInvariant, PTL

\* An approval is ended by a decision or an edit of an administrator, or by a
\* call of the user that had read an earlier status.
THEOREM ApprovalProved == Spec => ApprovalStands
<1>1. ASSUME IInv, [Next]_vars, status = "approved", status' # "approved"
      PROVE  \/ \E c \in Calls :
                   /\ call'[c] = [step |-> "written"]
                   /\ \/ call[c] = Idle
                      \/ c \in overtaken /\ call[c].step \in {"submitting", "reverifying"}
             \/ \E st \in Statuses : UpdateUser(st, named')
    <2> USE <1>1 DEF IInv, KycTypeOK, userVars
    <2>1. ~ UNCHANGED vars
        BY <1>1 DEF vars
    <2>2. ASSUME NEW c \in Calls, WriteStatus(c)
          PROVE  c \in overtaken /\ call[c].step \in {"submitting", "reverifying"}
                    /\ call'[c] = [step |-> "written"]
        BY <2>2 DEF WriteStatus, ReadingsHold, Reverifiable, Goes
    <2>3. ASSUME NEW c \in Calls, NEW st \in Statuses, Review(c, st) \/ UpdateUserKyc(c, st)
          PROVE  call[c] = Idle /\ call'[c] = [step |-> "written"]
        BY <2>3 DEF Review, UpdateUserKyc, Goes
    <2>4. ASSUME Next
          PROVE  \/ \E c \in Calls : \/ WriteStatus(c)
                                    \/ \E st \in Statuses : Review(c, st) \/ UpdateUserKyc(c, st)
                 \/ \E st \in Statuses, names \in [Kinds -> Files \cup {None}] :
                       UpdateUser(st, names)
        BY <2>4 DEF Next, Step, UploadFile, CheckDocument, SaveAttachment, NameFile, RemoveFile,
           ClearName, MarkDeleted, CheckUser, VerifyDocuments, Invalidate, Miss, ReadUser, Fill,
           Lost, Expire
    <2>5. Next
        BY <1>1, <2>1
    <2>6. CASE \E st \in Statuses, names \in [Kinds -> Files \cup {None}] : UpdateUser(st, names)
        <3>1. \E st \in Statuses : UpdateUser(st, named')
            BY <2>6 DEF UpdateUser
        <3> QED
            BY <3>1
    <2>7. CASE \E c \in Calls : \/ WriteStatus(c)
                               \/ \E st \in Statuses : Review(c, st) \/ UpdateUserKyc(c, st)
        <3>1. PICK c \in Calls : \/ WriteStatus(c)
                                \/ \E st \in Statuses : Review(c, st) \/ UpdateUserKyc(c, st)
            BY <2>7
        <3>2. CASE WriteStatus(c)
            <4>1. /\ c \in overtaken /\ call[c].step \in {"submitting", "reverifying"}
                  /\ call'[c] = [step |-> "written"]
                BY <2>2, <3>2
            <4> QED
                BY <4>1
        <3>3. CASE \E st \in Statuses : Review(c, st) \/ UpdateUserKyc(c, st)
            <4>1. call[c] = Idle /\ call'[c] = [step |-> "written"]
                BY <2>3, <3>3
            <4> QED
                BY <4>1
        <3> QED
            BY <3>1, <3>2, <3>3
    <2> QED
        BY <2>4, <2>5, <2>6, <2>7
<1>2. IInv /\ [Next]_vars =>
        [(status = "approved" /\ status' # "approved") =>
          \/ \E c \in Calls :
                /\ call'[c] = [step |-> "written"]
                /\ \/ call[c] = Idle
                   \/ c \in overtaken /\ call[c].step \in {"submitting", "reverifying"}
          \/ \E st \in Statuses : UpdateUser(st, named')]_vars
    BY <1>1
<1> QED
    BY <1>2, InductiveInvariant, PTL DEF Spec, ApprovalStands
=============================================================================
