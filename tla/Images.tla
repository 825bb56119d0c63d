------------------------------- MODULE Images -------------------------------
(***************************************************************************)
(* Pictures: files in the object store (StorageService) and the rows that  *)
(* point to them: a user's avatar, a seller's identity documents           *)
(* (UsersService) and the pictures of a product (ProductsService).  One    *)
(* user, one seller and one product: the handlers of different ones share  *)
(* nothing.  Files that do not pass validateImage end a request before it  *)
(* has done anything.                                                      *)
(***************************************************************************)
EXTENDS Requests

CONSTANTS
    Document,       \* the pictures an identity verification needs
    MaxFiles,       \* bound: files uploaded
    MaxPictures,    \* bound: rows of table product_images, deleted ones included
    MaxBatch        \* bound: files of one request

ASSUME ImagesAssumption ==
    /\ Document # {}
    /\ MaxFiles \in Nat /\ MaxPictures \in Nat /\ MaxBatch \in Nat

File == 1 .. MaxFiles
NoFile == 0
Picture == 1 .. MaxPictures
NoPicture == 0

VARIABLES
    file,       \* the store, in the order of uploads
    avatar,     \* users.avatarUrl
    document,   \* table identity_verifications: the url of each picture
    picture,    \* table product_images, in the order of insertion
    broken      \* history: some statement or call to the store has failed

imgVars == <<file, avatar, document, picture, broken>>

FileUse == {"avatar", "document", "picture"}
StoredFile == [state : {"none", "stored", "deleted"}, use : FileUse]
PictureRow == [file : File \cup {NoFile}, order : Nat, state : {"none", "live", "deleted"}]

ImagesInit ==
    /\ file = [f \in File |-> [state |-> "none", use |-> "avatar"]]
    /\ avatar = NoFile
    /\ document = [d \in Document |-> NoFile]
    /\ picture = [p \in Picture |-> [file |-> NoFile, order |-> 0, state |-> "none"]]
    /\ broken = FALSE

\* stage: what is left to do with each document; urls: the row that will be written.
ImageArgs == [old |-> NoFile, new |-> NoFile, order |-> 0, picture |-> NoPicture,
              stage |-> [d \in Document |-> "keep"], urls |-> [d \in Document |-> NoFile]]

Stored(f) == f # NoFile => file[f].state = "stored"
LivePictures == {p \in Picture : picture[p].state = "live"}
HighestOrder == IF LivePictures = {} THEN -1
                ELSE CHOOSE n \in {picture[p].order : p \in LivePictures} :
                        \A p \in LivePictures : picture[p].order <= n

---------------------------------------------------------------------------
(* Requests.                                                               *)

UploadAvatar(r) ==
    Begin(r, <<"uploadAvatar", "dropOld", "writeAvatar">>, [ImageArgs EXCEPT !.old = avatar])

\* addImages finds the highest order once, for n files.
AddImages(r, n) ==
    Begin(r, [i \in 1 .. 2 * n |-> IF i % 2 = 1 THEN "uploadPicture" ELSE "insertPicture"],
          [ImageArgs EXCEPT !.order = HighestOrder + 1])

RemoveImage(r, p) ==
    /\ picture[p].state = "live"
    /\ Begin(r, <<"dropOld", "deletePicture">>,
             [ImageArgs EXCEPT !.picture = p, !.old = picture[p].file])

\* upsertIdentityVerification: a document that is sent replaces the file there was.
SendPictures(r, D) ==
    Begin(r, <<"documents", "writeDocuments">>,
          [ImageArgs EXCEPT
              !.urls = document,
              !.stage = [d \in Document |-> IF d \notin D THEN "keep"
                                            ELSE IF document[d] = NoFile THEN "upload"
                                            ELSE "drop"]])

---------------------------------------------------------------------------
(* Statements.                                                             *)

\* The store takes a file under a name of its own.
Uploaded(f, use) ==
    /\ \A g \in File : file[g].state = "none" <=> g >= f
    /\ file' = [file EXCEPT ![f] = [state |-> "stored", use |-> use]]

\* Removed, if it was there.
Dropped(f) == IF f = NoFile THEN file ELSE [file EXCEPT ![f].state = "deleted"]

Upload(r, s, use) ==
    /\ At(r, s)
    /\ \E f \in File : Uploaded(f, use) /\ AdvanceWith(r, [req[r].arg EXCEPT !.new = f])
    /\ UNCHANGED <<avatar, document, picture, broken>>

\* deleteImage logs a failure of the store and goes on.
DropOld(r) ==
    /\ At(r, "dropOld")
    /\ \/ file' = Dropped(req[r].arg.old) /\ Advance(r) /\ UNCHANGED broken
       \/ /\ Faults /\ req[r].arg.old # NoFile
          /\ req' = [req EXCEPT ![r].todo = Tail(@)] /\ smooth' = FALSE /\ broken' = TRUE
          /\ UNCHANGED <<file, begun>>
    /\ UNCHANGED <<avatar, document, picture>>

\* Mutation: the row keeps the file it had.
AvatarWrittenOld(arg) == arg.old

AvatarWritten(arg) == arg.new

WriteAvatar(r) ==
    /\ At(r, "writeAvatar")
    /\ avatar' = AvatarWritten(req[r].arg)
    /\ Advance(r)
    /\ UNCHANGED <<file, document, picture, broken>>

InsertPicture(r) ==
    LET arg == req[r].arg IN
    /\ At(r, "insertPicture")
    /\ \E p \in Picture :
          /\ \A q \in Picture : picture[q].state = "none" <=> q >= p
          /\ picture' = [picture EXCEPT ![p] =
                            [file |-> arg.new, order |-> arg.order, state |-> "live"]]
    /\ AdvanceWith(r, [arg EXCEPT !.order = @ + 1])
    /\ UNCHANGED <<file, avatar, document, broken>>

\* Deleting a row that is gone is an error.
DeletePicture(r) ==
    LET p == req[r].arg.picture IN
    /\ At(r, "deletePicture")
    /\ IF picture[p].state = "live"
       THEN picture' = [picture EXCEPT ![p].state = "deleted"] /\ Advance(r)
       ELSE Quit(r) /\ UNCHANGED picture
    /\ UNCHANGED <<file, avatar, document, broken>>

\* uploadOrKeep of each document, side by side: Promise.all waits for them all,
\* and when one fails the others still run.
StoreDocument(r, d) ==
    LET arg == req[r].arg
        Due(stage) == arg.stage[d] = stage
    IN
    /\ At(r, "documents")
    /\ \/ /\ Due("drop")
          /\ file' = Dropped(arg.urls[d])
          /\ req' = [req EXCEPT ![r].arg.stage[d] = "upload"]
          /\ UNCHANGED <<smooth, broken>>
       \/ /\ Faults /\ Due("drop")
          /\ req' = [req EXCEPT ![r].arg.stage[d] = "upload"]
          /\ smooth' = FALSE /\ broken' = TRUE
          /\ UNCHANGED file
       \/ /\ Due("upload")
          /\ \E f \in File :
                /\ Uploaded(f, "document")
                /\ req' = [req EXCEPT ![r].arg.stage[d] = "keep", ![r].arg.urls[d] = f]
          /\ UNCHANGED <<smooth, broken>>
       \/ /\ Faults /\ Due("upload")
          /\ req' = [req EXCEPT ![r].arg.stage[d] = "failed"]
          /\ smooth' = FALSE /\ broken' = TRUE
          /\ UNCHANGED file
    /\ UNCHANGED <<begun, avatar, document, picture>>

\* All four are needed; the pictures already stored stay where they are.
CollectDocuments(r) ==
    LET arg == req[r].arg IN
    /\ At(r, "documents")
    /\ \A d \in Document : arg.stage[d] \in {"keep", "failed"}
    /\ IF \E d \in Document : arg.stage[d] = "failed" \/ arg.urls[d] = NoFile
       THEN Quit(r) ELSE Advance(r)
    /\ UNCHANGED imgVars

WriteDocuments(r) ==
    /\ At(r, "writeDocuments")
    /\ document' = req[r].arg.urls
    /\ Advance(r)
    /\ UNCHANGED <<file, avatar, picture, broken>>

BreakImage(r) ==
    /\ Break(r)
    /\ broken' = TRUE
    /\ UNCHANGED <<file, avatar, document, picture>>

---------------------------------------------------------------------------
ImageStep(r) ==
    \/ Upload(r, "uploadAvatar", "avatar") \/ Upload(r, "uploadPicture", "picture")
    \/ DropOld(r) \/ WriteAvatar(r) \/ InsertPicture(r) \/ DeletePicture(r)
    \/ \E d \in Document : StoreDocument(r, d)
    \/ CollectDocuments(r) \/ WriteDocuments(r) \/ BreakImage(r)

StartImage(r) ==
    \/ UploadAvatar(r)
    \/ \E n \in 1 .. MaxBatch : AddImages(r, n)
    \/ \E p \in Picture : RemoveImage(r, p)
    \/ \E D \in (SUBSET Document) \ {{}} : SendPictures(r, D)

ImagesNext == \E r \in Slot : (StartImage(r) /\ UNCHANGED imgVars) \/ ImageStep(r)

ImagesSpec == ReqInit /\ ImagesInit /\ [][ImagesNext]_<<reqVars, imgVars>>

---------------------------------------------------------------------------
(* Properties.                                                             *)

\* The store and the tables hold what their declarations allow.
ImagesTypeOK ==
    /\ file \in [File -> StoredFile]
    /\ avatar \in File \cup {NoFile}
    /\ document \in [Document -> File \cup {NoFile}]
    /\ picture \in [Picture -> PictureRow]
    /\ broken \in BOOLEAN

\* Between requests every row points to a file that is there: an avatar and the
\* pictures of a product even when requests have overlapped, as long as none has
\* failed; documents while requests do not overlap either (one that keeps a
\* picture writes back the url it read, which another may have replaced).  Then
\* also every stored avatar or picture is one that some row shows, and pictures
\* have places of their own.  (Documents may be stored in vain: a first submission
\* that lacks one is refused after the others were uploaded.)
PicturesResolve ==
    AllRest /\ ~broken =>
        /\ Stored(avatar)
        /\ \A p \in LivePictures : Stored(picture[p].file)
        /\ smooth =>
              /\ \A d \in Document : Stored(document[d])
              /\ \A f \in File :
                    file[f].state = "stored" /\ file[f].use # "document"
                        => f = avatar \/ \E p \in LivePictures : picture[p].file = f
              /\ \A p, q \in LivePictures : picture[p].order = picture[q].order => p = q

=============================================================================
