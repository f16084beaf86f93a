--------------------------- MODULE SubmissionsProofs ---------------------------
(***************************************************************************)
(* Proofs about Submissions, for any number of users, campaigns, files and *)
(* requests, and any bound on the images of a request.                     *)
(***************************************************************************)
EXTENDS Submissions, FiniteSetTheorems, SequenceTheorems, TLAPS

-----------------------------------------------------------------------------
(* The inductive invariant                                                 *)

\* What a request carries: the files it is done with are in storage, the
\* handlers that write a campaign know its owner, an update knows its campaign,
\* and the thumbnail of a new campaign is on its way or there.
RequestsFit ==
    \A r \in DOMAIN request :
        /\ Done(r) \subseteq stored
        /\ request[r].form \in {"create", "update"} => request[r].userId \in User
        /\ request[r].form = "update" => request[r].campaignId \in Campaign
        /\ request[r].form = "create" =>
               \E p \in Done(r) \cup ToSet(request[r].files) : p[1] = "thumbnail"

\* RowsNameStoredFiles, table by table.
Known == stored \cup {None}
CampaignFilesStored ==
    \A c \in DOMAIN campaign :
        /\ campaign[c].thumbnail \in Known
        /\ campaign[c].signature \in Known
        /\ \A x \in Extra : campaign[c].extra[x] \in Known
ImageFilesStored == \A i \in DOMAIN image : image[i].imageUrl \in Known
EvidenceFilesStored == \A u \in User, k \in Kind : evidence[u][k] \in Known
PictureFilesStored == \A x \in User \cup Organization : picture[x] \in Known
PostedFilesStored == report \cup post \subseteq Known

FilesStored ==
    /\ CampaignFilesStored
    /\ ImageFilesStored
    /\ EvidenceFilesStored
    /\ PictureFilesStored
    /\ PostedFilesStored

IInv == TypeOK /\ RequestsFit /\ FilesStored /\ VerdictsAreOnTheNamedFiles

\* At first nobody has handed in anything.
LEMMA InitIInv == Init => IInv
<1>. SUFFICES ASSUME Init PROVE IInv
  OBVIOUS
<1>1. TypeOK
  BY DEF Init, TypeOK, Optional, NoEvidence, Status, IsTable, EmptyTable
<1>2. RequestsFit
  BY DEF Init, RequestsFit, IsTable, EmptyTable
<1>3. FilesStored
  BY DEF Init, FilesStored, CampaignFilesStored, ImageFilesStored,
         EvidenceFilesStored, PictureFilesStored, PostedFilesStored, Known,
         NoEvidence, IsTable, EmptyTable
<1>. QED
  BY <1>1, <1>2, <1>3 DEF IInv, VerdictsAreOnTheNamedFiles, Init

\* The invariant speaks of every path that a row names.
LEMMA FilesStoredSuffices == FilesStored => RowsNameStoredFiles
BY DEF FilesStored, CampaignFilesStored, ImageFilesStored, EvidenceFilesStored,
       PictureFilesStored, PostedFilesStored, Known, RowsNameStoredFiles, Named

-----------------------------------------------------------------------------
(* Sequences of files                                                      *)

\* What has a length and elements of S is a sequence over S.
LEMMA FunctionIsSeq ==
    ASSUME NEW S, NEW n \in Nat, NEW f \in [1..n -> S]
    PROVE  f \in Seq(S) /\ Len(f) = n
OBVIOUS

\* Bounded sequences are sequences.
LEMMA SeqOfType ==
    ASSUME NEW S, NEW n \in Nat, NEW s \in SeqOf(S, n)
    PROVE  s \in Seq(S)
<1>1. PICK m \in 0..n : s \in [1..m -> S]
  BY DEF SeqOf
<1>. QED
  BY <1>1, FunctionIsSeq

\* A finite set, listed, is a sequence of its elements.
LEMMA SetToSeqType ==
    ASSUME NEW S, IsFiniteSet(S)
    PROVE  SetToSeq(S) \in Seq(S)
<1>1. Cardinality(S) \in Nat /\ ExistsBijection(1..Cardinality(S), S)
  BY FS_CardinalityType
<1>2. \E f \in [1..Cardinality(S) -> S] : IsInjective(f)
  BY <1>1 DEF ExistsBijection, Bijection, Injection, Surjection, IsInjective
<1>3. SetToSeq(S) \in [1..Cardinality(S) -> S]
  BY <1>2 DEF SetToSeq
<1>. QED
  BY <1>1, <1>3, FunctionIsSeq

\* The elements of a sequence are its head and those of its tail.
LEMMA HeadAndTail ==
    ASSUME NEW S, NEW s \in Seq(S), s # <<>>
    PROVE  ToSet(s) \subseteq {Head(s)} \cup ToSet(Tail(s))
<1>1. /\ Tail(s) \in Seq(S) /\ Len(Tail(s)) = Len(s) - 1
      /\ \A i \in 1..Len(Tail(s)) : Tail(s)[i] = s[i + 1]
  BY HeadTailProperties
<1>2. DOMAIN s = 1..Len(s) /\ DOMAIN Tail(s) = 1..Len(Tail(s)) /\ Len(s) \in Nat
  BY <1>1, LenProperties
<1>3. ASSUME NEW i \in DOMAIN s
      PROVE  s[i] \in {Head(s)} \cup ToSet(Tail(s))
  <2>1. CASE i = 1
    BY <2>1
  <2>2. CASE i # 1
    <3>1. i - 1 \in 1..Len(Tail(s)) /\ s[i] = Tail(s)[i - 1]
      BY <1>1, <1>2, <1>3, <2>2
    <3>. QED
      BY <1>2, <3>1 DEF ToSet
  <2>. QED
    BY <2>1, <2>2
<1>. QED
  BY <1>3 DEF ToSet

\* Appending an element adds it to the elements.
LEMMA AppendAdds ==
    ASSUME NEW S, NEW s \in Seq(S), NEW e \in S
    PROVE  /\ Append(s, e) \in Seq(S)
           /\ ToSet(Append(s, e)) = ToSet(s) \cup {e}
<1>1. /\ Append(s, e) \in Seq(S) /\ Len(Append(s, e)) = Len(s) + 1
      /\ \A i \in 1..Len(s) : Append(s, e)[i] = s[i]
      /\ Append(s, e)[Len(s) + 1] = e
  BY AppendProperties
<1>2. /\ DOMAIN s = 1..Len(s) /\ Len(s) \in Nat
      /\ DOMAIN Append(s, e) = 1..(Len(s) + 1)
  BY <1>1, LenProperties
<1>. QED
  BY <1>1, <1>2 DEF ToSet

\* What is put behind a sequence leaves its first element in front.
LEMMA ConcatHead ==
    ASSUME NEW S, NEW s \in Seq(S), NEW t \in Seq(S), Len(s) >= 1
    PROVE  /\ s \o t \in Seq(S)
           /\ Len(s \o t) = Len(s) + Len(t)
           /\ (s \o t)[1] = s[1]
<1>1. Len(s) \in Nat /\ Len(t) \in Nat
  BY LenProperties
<1>2. 1 \in 1..Len(s) + Len(t) /\ 1 <= Len(s)
  BY <1>1
<1>. QED
  BY <1>2, ConcatProperties

\* What is done is a set of paths.
LEMMA DonePaths ==
    ASSUME TypeOK, NEW r \in DOMAIN request
    PROVE  Done(r) \subseteq Path
<1>1. request[r].done \in Seq(Path)
  BY DEF TypeOK, IsTable, RequestRow
<1>. QED
  BY <1>1, LenProperties DEF Done, ToSet

\* Folders of campaign files and of identity files are finite sets.
LEMMA FoldersAreFinite ==
    /\ \A X \in SUBSET Extra : IsFiniteSet(X)
    /\ \A K \in SUBSET Kind : IsFiniteSet(K)
<1>1. IsFiniteSet({"videos", "beneficiary-images"})
  <2>1. IsFiniteSet({"videos"})
    BY FS_Singleton
  <2>2. IsFiniteSet({"videos"} \cup {"beneficiary-images"})
    BY <2>1, FS_AddElement
  <2>3. {"videos"} \cup {"beneficiary-images"} = {"videos", "beneficiary-images"}
    OBVIOUS
  <2>. QED
    BY <2>2, <2>3
<1>2. IsFiniteSet({"selfie", "id-front", "id-back"})
  <2>1. IsFiniteSet({"selfie"})
    BY FS_Singleton
  <2>2. IsFiniteSet({"selfie"} \cup {"id-front"})
    BY <2>1, FS_AddElement
  <2>3. IsFiniteSet(({"selfie"} \cup {"id-front"}) \cup {"id-back"})
    BY <2>2, FS_AddElement
  <2>4. ({"selfie"} \cup {"id-front"}) \cup {"id-back"} =
            {"selfie", "id-front", "id-back"}
    OBVIOUS
  <2>. QED
    BY <2>3, <2>4
<1>3. \A X \in SUBSET Extra : X \in SUBSET {"videos", "beneficiary-images"}
  BY FolderAssumption
<1>4. \A K \in SUBSET Kind : K \in SUBSET {"selfie", "id-front", "id-back"}
  BY FolderAssumption
<1>. QED
  BY <1>1, <1>2, <1>3, <1>4, FS_Subset

\* One file in each of finitely many folders is finitely many files.
LEMMA OneFileEach ==
    ASSUME NEW X, IsFiniteSet(X), NEW u, NEW n,
           NEW S, S = {<<x, u, n>> : x \in X}
    PROVE  IsFiniteSet(S)
<1>. DEFINE f == [p \in S |-> p[1]]
<1>1. f \in Injection(S, X)
  BY DEF Injection, IsInjective
<1>. QED
  BY <1>1, FS_Injection

\* The files of each handler are sequences of paths.
LEMMA FilesType ==
    /\ \A names \in Names : Images(names) \in Seq(Path)
    /\ \A X \in SUBSET Extra, n \in Name \cup {Undefined} :
           Extras(X, n) \in Seq(Path)
    /\ \A K \in SUBSET Kind, u \in User, n \in Name :
           SetToSeq({<<k, u, n>> : k \in K}) \in Seq(Path)
    /\ \A m \in Nat, folder \in Folder,
          x \in Optional(User \cup Organization \cup Campaign) :
           \A names \in SeqOf(Name, m) :
               [i \in DOMAIN names |-> <<folder, x, names[i]>>] \in Seq(Path)
<1>1. ASSUME NEW m \in Nat, NEW folder \in Folder,
             NEW x \in Optional(User \cup Organization \cup Campaign),
             NEW names \in SeqOf(Name, m)
      PROVE  [i \in DOMAIN names |-> <<folder, x, names[i]>>] \in Seq(Path)
  <2>. DEFINE f == [i \in DOMAIN names |-> <<folder, x, names[i]>>]
  <2>1. names \in Seq(Name)
    BY SeqOfType
  <2>2. DOMAIN names = 1..Len(names) /\ Len(names) \in Nat
        /\ \A i \in DOMAIN names : names[i] \in Name
    BY <2>1, LenProperties
  <2>3. \A i \in DOMAIN names : <<folder, x, names[i]>> \in Path
    BY <2>2 DEF Path
  <2>4. f \in [1..Len(names) -> Path]
    BY <2>2, <2>3
  <2>. QED
    BY <2>2, <2>4, FunctionIsSeq
<1>2. ASSUME NEW names \in Names
      PROVE  Images(names) \in Seq(Path)
  <2>1. "images" \in Folder /\ None \in Optional(User \cup Organization \cup Campaign)
    BY DEF Folder, Optional
  <2>2. names \in SeqOf(Name, MaxImages)
    BY DEF Names
  <2>3. [i \in DOMAIN names |-> <<"images", None, names[i]>>] \in Seq(Path)
    BY <1>1, <2>1, <2>2, MaxImagesAssumption
  <2>. QED
    BY <2>3 DEF Images
<1>3. ASSUME NEW X \in SUBSET Extra, NEW n \in Name \cup {Undefined}
      PROVE  Extras(X, n) \in Seq(Path)
  <2>. DEFINE S == {<<x, None, n>> : x \in X}
  <2>1. S = {<<x, None, n>> : x \in X} /\ S \subseteq Path
    BY DEF Path, Folder, Optional
  <2>. HIDE DEF S
  <2>2. IsFiniteSet(X)
    BY FoldersAreFinite
  <2>3. IsFiniteSet(S)
    BY <2>1, <2>2, OneFileEach
  <2>4. SetToSeq(S) \in Seq(Path)
    BY <2>1, <2>3, SetToSeqType, SeqMonotonic
  <2>. QED
    BY <2>4 DEF S, Extras
<1>4. ASSUME NEW K \in SUBSET Kind, NEW u \in User, NEW n \in Name
      PROVE  SetToSeq({<<k, u, n>> : k \in K}) \in Seq(Path)
  <2>. DEFINE S == {<<k, u, n>> : k \in K}
  <2>1. S = {<<k, u, n>> : k \in K} /\ S \subseteq Path
    BY DEF Path, Folder, Optional
  <2>. HIDE DEF S
  <2>2. IsFiniteSet(K)
    BY FoldersAreFinite
  <2>3. IsFiniteSet(S)
    BY <2>1, <2>2, OneFileEach
  <2>4. SetToSeq(S) \in Seq(Path)
    BY <2>1, <2>3, SetToSeqType, SeqMonotonic
  <2>. QED
    BY <2>4 DEF S
<1>. QED
  BY <1>1, <1>2, <1>3, <1>4
-----------------------------------------------------------------------------
(* Requests                                                                *)

\* A request that is asked for adds one row, under a key that was free.
LEMMA AskAdds ==
    ASSUME TypeOK, NEW form, NEW u \in Optional(User \cup Organization),
           NEW c \in Optional(Campaign), NEW files \in Seq(Path),
           Ask(form, u, c, files)
    PROVE  /\ IsTable(request', Request, RequestRow)
           /\ \A r \in DOMAIN request' :
                  \/ r \in DOMAIN request /\ request'[r] = request[r]
                  \/ request'[r] = [form |-> form, userId |-> u, campaignId |-> c,
                                    files |-> files, done |-> <<>>]
<1>. DEFINE row == [form |-> form, userId |-> u, campaignId |-> c,
                    files |-> files, done |-> <<>>]
<1>1. row \in RequestRow
  BY DEF RequestRow, Ask
<1>2. NewKey(Request, request) \in Request
  BY DEF Ask, NewKey, HasRoom
<1>3. request' = Put(request, NewKey(Request, request), row)
  BY DEF Ask
<1>4. IsTable(request, Request, RequestRow)
  BY DEF TypeOK
<1>. HIDE DEF row
<1>5. IsTable(request', Request, RequestRow)
  BY <1>1, <1>2, <1>3, <1>4 DEF IsTable, Put
<1>6. \A r \in DOMAIN request' :
          \/ r \in DOMAIN request /\ request'[r] = request[r]
          \/ request'[r] = row
  BY <1>3 DEF Put
<1>. QED
  BY <1>5, <1>6 DEF row

\* What fits before a request is asked for fits after it, if the new one does.
LEMMA AskFits ==
    ASSUME TypeOK, RequestsFit, NEW form, NEW u \in Optional(User \cup Organization),
           NEW c \in Optional(Campaign), NEW files \in Seq(Path),
           Ask(form, u, c, files), UNCHANGED stored,
           form \in {"create", "update"} => u \in User,
           form = "update" => c \in Campaign,
           form = "create" => \E p \in ToSet(files) : p[1] = "thumbnail"
    PROVE  IsTable(request', Request, RequestRow) /\ RequestsFit'
<1>1. /\ IsTable(request', Request, RequestRow)
      /\ \A r \in DOMAIN request' :
             \/ r \in DOMAIN request /\ request'[r] = request[r]
             \/ request'[r] = [form |-> form, userId |-> u, campaignId |-> c,
                               files |-> files, done |-> <<>>]
  BY AskAdds
<1>2. ToSet(<<>>) = {}
  BY DEF ToSet
<1>3. ASSUME NEW r \in DOMAIN request'
      PROVE  /\ ToSet(request'[r].done) \subseteq stored
             /\ request'[r].form \in {"create", "update"} =>
                    request'[r].userId \in User
             /\ request'[r].form = "update" => request'[r].campaignId \in Campaign
             /\ request'[r].form = "create" =>
                    \E p \in ToSet(request'[r].done) \cup ToSet(request'[r].files) :
                        p[1] = "thumbnail"
  <2>1. CASE r \in DOMAIN request /\ request'[r] = request[r]
    BY <2>1 DEF RequestsFit, Done
  <2>2. CASE request'[r] = [form |-> form, userId |-> u, campaignId |-> c,
                            files |-> files, done |-> <<>>]
    BY <1>2, <2>2
  <2>. QED
    BY <1>1, <1>3, <2>1, <2>2
<1>. QED
  BY <1>1, <1>3 DEF RequestsFit, Done

\* A request that ends takes its row with it and leaves the others as they fit.
LEMMA EndFits ==
    ASSUME TypeOK, RequestsFit, NEW r, End(r), stored \subseteq stored'
    PROVE  IsTable(request', Request, RequestRow) /\ RequestsFit'
<1>1. IsTable(request', Request, RequestRow)
  BY DEF TypeOK, End, IsTable, Drop
<1>2. /\ DOMAIN request' \subseteq DOMAIN request
      /\ \A q \in DOMAIN request' : request'[q] = request[q]
  BY DEF End, Drop
<1>. QED
  BY <1>1, <1>2 DEF RequestsFit, Done

-----------------------------------------------------------------------------
(* Images and URLs                                                         *)

\* The URL in a folder is one of the files done, or the one that was there.
LEMMA UrlOrIsDone ==
    ASSUME NEW r, NEW folder, NEW old
    PROVE  /\ UrlOr(r, folder, old) \in Done(r) \cup {old}
           /\ (\E p \in Done(r) : p[1] = folder) =>
                  UrlOr(r, folder, old) \in Done(r)
BY DEF UrlOr

\* An upload whose files have all gone has done the thumbnail it started with.
LEMMA ThumbnailIsDone ==
    ASSUME RequestsFit, NEW r, Uploaded(r, "create")
    PROVE  \E p \in Done(r) : p[1] = "thumbnail"
<1>1. ToSet(request[r].files) = {}
  BY DEF Uploaded, ToSet
<1>. QED
  BY <1>1 DEF RequestsFit, Uploaded

\* The rows that are added are images of c at the given URLs; the others stay.
LEMMA AddImagesType ==
    ASSUME NEW table, IsTable(table, Image, ImageRow), NEW c \in Campaign,
           NEW urls, \A i \in DOMAIN urls : urls[i] \in Path,
           \E f \in [DOMAIN urls -> Image \ DOMAIN table] :
               \A i, j \in DOMAIN urls : f[i] = f[j] => i = j
    PROVE  /\ IsTable(AddImages(table, c, urls), Image, ImageRow)
           /\ \A k \in DOMAIN AddImages(table, c, urls) :
                  \/ k \in DOMAIN table /\ AddImages(table, c, urls)[k] = table[k]
                  \/ \E i \in DOMAIN urls :
                         AddImages(table, c, urls)[k].imageUrl = urls[i]
<1>. DEFINE free == Image \ DOMAIN table
            id == CHOOSE f \in [DOMAIN urls -> free] :
                      \A i, j \in DOMAIN urls : f[i] = f[j] => i = j
            at(k) == CHOOSE i \in DOMAIN urls : id[i] = k
            rows == [k \in {id[i] : i \in DOMAIN urls} |->
                        [campaignId |-> c, imageUrl |-> urls[at(k)]]]
            new == [k \in DOMAIN table \cup DOMAIN rows |->
                       IF k \in DOMAIN rows THEN rows[k] ELSE table[k]]
<1>1. id \in [DOMAIN urls -> free]
  OBVIOUS
<1>2. AddImages(table, c, urls) = new
  BY DEF AddImages
<1>. HIDE DEF id
<1>3. ASSUME NEW k \in DOMAIN rows
      PROVE  /\ k \in free
             /\ \E i \in DOMAIN urls :
                    rows[k] = [campaignId |-> c, imageUrl |-> urls[i]]
             /\ rows[k] \in ImageRow
  <2>1. \E i \in DOMAIN urls : id[i] = k
    BY <1>3
  <2>2. at(k) \in DOMAIN urls /\ id[at(k)] = k
    BY <2>1
  <2>3. k \in free
    BY <1>1, <2>2
  <2>4. rows[k] = [campaignId |-> c, imageUrl |-> urls[at(k)]]
    BY <1>3
  <2>5. rows[k] \in ImageRow
    BY <2>2, <2>4 DEF ImageRow
  <2>. QED
    BY <2>2, <2>3, <2>4, <2>5
<1>. HIDE DEF rows
<1>4. /\ DOMAIN new = DOMAIN table \cup DOMAIN rows
      /\ \A k \in DOMAIN new :
             new[k] = IF k \in DOMAIN rows THEN rows[k] ELSE table[k]
      /\ new \in [DOMAIN new -> {new[k] : k \in DOMAIN new}]
  OBVIOUS
<1>. HIDE DEF new
<1>5. IsTable(new, Image, ImageRow)
  BY <1>3, <1>4 DEF IsTable
<1>6. \A k \in DOMAIN new :
          \/ k \in DOMAIN table /\ new[k] = table[k]
          \/ \E i \in DOMAIN urls : new[k].imageUrl = urls[i]
  BY <1>3, <1>4
<1>. QED
  BY <1>2, <1>5, <1>6

\* The images that r has done are paths of files that it is done with.
LEMMA NewImagesAreDone ==
    ASSUME TypeOK, NEW r \in DOMAIN request
    PROVE  \A i \in DOMAIN NewImages(r) :
               NewImages(r)[i] \in Done(r) /\ NewImages(r)[i] \in Path
<1>1. \A i \in DOMAIN NewImages(r) : NewImages(r)[i] \in Done(r)
  BY DEF NewImages, Done, ToSet
<1>. QED
  BY <1>1, DonePaths

\* The images of a campaign that r writes are stored rows of stored files.
LEMMA AddImagesStored ==
    ASSUME TypeOK, RequestsFit, ImageFilesStored, NEW r \in DOMAIN request,
           NEW c \in Campaign, RoomForImages(NewImages(r)),
           image' = AddImages(image, c, NewImages(r)), UNCHANGED stored
    PROVE  IsTable(image', Image, ImageRow) /\ ImageFilesStored'
<1>. DEFINE urls == NewImages(r)
<1>1. \A i \in DOMAIN urls : urls[i] \in Path /\ urls[i] \in stored
  BY NewImagesAreDone DEF RequestsFit
<1>2. \E f \in [DOMAIN urls -> Image \ DOMAIN image] :
          \A i, j \in DOMAIN urls : f[i] = f[j] => i = j
  BY DEF RoomForImages
<1>3. IsTable(image, Image, ImageRow) /\ image' = AddImages(image, c, urls)
  BY DEF TypeOK
<1>. HIDE DEF urls
<1>4. /\ IsTable(image', Image, ImageRow)
      /\ \A k \in DOMAIN image' :
             \/ k \in DOMAIN image /\ image'[k] = image[k]
             \/ \E i \in DOMAIN urls : image'[k].imageUrl = urls[i]
  BY <1>1, <1>2, <1>3, AddImagesType
<1>. QED
  BY <1>1, <1>4 DEF ImageFilesStored, Known
-----------------------------------------------------------------------------
(* Steps that write no row                                                 *)

\* As long as no file is lost, a step of a request alone keeps the invariant.
LEMMA RowsUntouched ==
    ASSUME IInv, UNCHANGED <<campaignVars, identityVars, otherVars>>,
           stored \subseteq stored', stored' \subseteq Path,
           IsTable(request', Request, RequestRow), RequestsFit'
    PROVE  IInv'
<1>1. TypeOK'
  BY DEF IInv, TypeOK, campaignVars, identityVars, otherVars
<1>2. FilesStored'
  BY DEF IInv, campaignVars, identityVars, otherVars, FilesStored,
         CampaignFilesStored, ImageFilesStored, EvidenceFilesStored,
         PictureFilesStored, PostedFilesStored, Known
<1>3. VerdictsAreOnTheNamedFiles'
  BY DEF IInv, identityVars, VerdictsAreOnTheNamedFiles
<1>. QED
  BY <1>1, <1>2, <1>3 DEF IInv

\* An upload adds the file to storage before its URL is known.
LEMMA UploadKeeps ==
    ASSUME IInv, NEW r \in Request, Upload(r)
    PROVE  IInv'
<1>. DEFINE file == Head(request[r].files)
            row == [request[r] EXCEPT !.files = Tail(request[r].files),
                                      !.done = Append(request[r].done, file)]
<1>1. TypeOK /\ RequestsFit
  BY DEF IInv
<1>2. /\ r \in DOMAIN request /\ request[r] \in RequestRow
      /\ request[r].files \in Seq(Path) /\ request[r].files # <<>>
      /\ request[r].done \in Seq(Path)
  BY <1>1 DEF Upload, Uploading, TypeOK, IsTable, RequestRow
<1>3. /\ file \in Path /\ Tail(request[r].files) \in Seq(Path)
      /\ ToSet(request[r].files) \subseteq
             {file} \cup ToSet(Tail(request[r].files))
  BY <1>2, HeadTailProperties, HeadAndTail
<1>4. /\ Append(request[r].done, file) \in Seq(Path)
      /\ ToSet(Append(request[r].done, file)) =
             ToSet(request[r].done) \cup {file}
  BY <1>2, <1>3, AppendAdds
<1>5. /\ stored' = stored \cup {file}
      /\ request' = [request EXCEPT ![r].files = Tail(@),
                                    ![r].done = Append(@, file)]
      /\ UNCHANGED <<campaignVars, identityVars, otherVars>>
  BY DEF Upload
<1>6. request' = [request EXCEPT ![r] = row]
  BY <1>1, <1>2, <1>5 DEF TypeOK, IsTable, RequestRow
<1>7. row \in RequestRow
  BY <1>2, <1>3, <1>4 DEF RequestRow
<1>8. /\ row.files = Tail(request[r].files)
      /\ row.done = Append(request[r].done, file)
      /\ row.form = request[r].form /\ row.userId = request[r].userId
      /\ row.campaignId = request[r].campaignId
  BY <1>2 DEF RequestRow
<1>9. stored' \subseteq Path
  BY <1>1, <1>3, <1>5 DEF TypeOK
<1>. HIDE DEF row, file
<1>10. IsTable(request', Request, RequestRow)
  BY <1>1, <1>2, <1>6, <1>7 DEF TypeOK, IsTable
<1>11. /\ DOMAIN request' = DOMAIN request
       /\ request'[r] = row
       /\ \A q \in DOMAIN request \ {r} : request'[q] = request[q]
  BY <1>2, <1>6
<1>12. RequestsFit'
  <2>. SUFFICES ASSUME NEW q \in DOMAIN request'
                PROVE  /\ ToSet(request'[q].done) \subseteq stored'
                       /\ request'[q].form \in {"create", "update"} =>
                              request'[q].userId \in User
                       /\ request'[q].form = "update" =>
                              request'[q].campaignId \in Campaign
                       /\ request'[q].form = "create" =>
                              \E p \in ToSet(request'[q].done)
                                           \cup ToSet(request'[q].files) :
                                  p[1] = "thumbnail"
    BY DEF RequestsFit, Done
  <2>1. CASE q = r
    <3>1. /\ ToSet(request[r].done) \subseteq stored
          /\ request[r].form \in {"create", "update"} => request[r].userId \in User
          /\ request[r].form = "update" => request[r].campaignId \in Campaign
          /\ request[r].form = "create" =>
                 \E p \in ToSet(request[r].done) \cup ToSet(request[r].files) :
                     p[1] = "thumbnail"
      BY <1>1, <1>2 DEF RequestsFit, Done
    <3>2. ToSet(row.done) \subseteq stored'
      BY <3>1, <1>4, <1>5, <1>8
    <3>3. ToSet(request[r].done) \cup ToSet(request[r].files)
              \subseteq ToSet(row.done) \cup ToSet(row.files)
      BY <1>3, <1>4, <1>8
    <3>. QED
      BY <3>1, <3>2, <3>3, <2>1, <1>8, <1>11
  <2>2. CASE q # r
    BY <2>2, <1>1, <1>5, <1>11 DEF RequestsFit, Done
  <2>. QED
    BY <2>1, <2>2
<1>. QED
  BY <1>5, <1>9, <1>10, <1>12, RowsUntouched

\* A post whose upload fails goes on with the files that are left.
LEMMA UploadFailsKeeps ==
    ASSUME IInv, NEW r \in Request, UploadFails(r)
    PROVE  IInv'
<1>1. /\ TypeOK /\ RequestsFit
      /\ stored' = stored /\ stored \subseteq Path
      /\ UNCHANGED <<campaignVars, identityVars, otherVars>>
  BY DEF IInv, TypeOK, UploadFails
<1>2. CASE request[r].form # "post"
  BY <1>1, <1>2, EndFits, RowsUntouched DEF UploadFails
<1>3. CASE request[r].form = "post"
  <2>. DEFINE row == [request[r] EXCEPT !.files = Tail(request[r].files)]
  <2>1. /\ r \in DOMAIN request /\ request[r] \in RequestRow
        /\ request[r].files \in Seq(Path) /\ request[r].files # <<>>
    BY <1>1 DEF UploadFails, Uploading, TypeOK, IsTable, RequestRow
  <2>2. request' = [request EXCEPT ![r] = row]
    BY <1>1, <1>3, <2>1 DEF UploadFails, TypeOK, IsTable, RequestRow
  <2>3. row \in RequestRow
    BY <2>1, HeadTailProperties DEF RequestRow
  <2>4. row.done = request[r].done /\ row.form = "post"
    BY <1>3, <2>1 DEF RequestRow
  <2>. HIDE DEF row
  <2>5. IsTable(request', Request, RequestRow)
    BY <1>1, <2>1, <2>2, <2>3 DEF TypeOK, IsTable
  <2>6. /\ DOMAIN request' = DOMAIN request
        /\ request'[r] = row
        /\ \A q \in DOMAIN request \ {r} : request'[q] = request[q]
    BY <2>1, <2>2
  <2>7. RequestsFit'
    BY <1>1, <2>1, <2>4, <2>6 DEF RequestsFit, Done
  <2>. QED
    BY <1>1, <2>5, <2>7, RowsUntouched
<1>. QED
  BY <1>2, <1>3

\* A request that dies leaves the files it uploaded in storage.
LEMMA RequestFailsKeeps ==
    ASSUME IInv, NEW r \in Request, RequestFails(r)
    PROVE  IInv'
BY EndFits, RowsUntouched DEF IInv, TypeOK, RequestFails

\* Asking to create, sign, identify, report, post or change a picture only
\* starts a request.
LEMMA AsksKeep ==
    ASSUME IInv,
           \/ \E u \in User : AskToCreate(u) \/ AskToIdentify(u)
           \/ \E c \in Campaign : AskToSign(c)
           \/ \E u \in User, c \in Campaign : AskToReport(u, c) \/ AskToPost(u, c)
           \/ \E x \in User \cup Organization : AskForPicture(x)
    PROVE  IInv'
<1>t. TypeOK /\ RequestsFit
  BY DEF IInv
<1>n. /\ None \in Optional(Campaign)
      /\ None \in Optional(User \cup Organization)
      /\ None \in Optional(User \cup Organization \cup Campaign)
      /\ \A u \in User : u \in Optional(User \cup Organization)
      /\ \A c \in Campaign : /\ c \in Optional(Campaign)
                             /\ c \in Optional(User \cup Organization \cup Campaign)
  BY DEF Optional
<1>s. UNCHANGED <<stored, campaignVars, identityVars, otherVars>>
      /\ stored \subseteq Path
  BY <1>t DEF AskToCreate, AskToIdentify, AskToSign, AskToReport, AskToPost,
              AskForPicture, TypeOK
<1>1. ASSUME NEW u \in User, AskToCreate(u)
      PROVE  IInv'
  <2>1. PICK names \in Names \ {<<>>}, X \in SUBSET Extra, n \in Name :
            Ask("create", u, None,
                <<<<"thumbnail", None, names[1]>>>>
                    \o Images(names) \o Extras(X, n))
    BY <1>1 DEF AskToCreate
  <2>. DEFINE first == <<<<"thumbnail", None, names[1]>>>>
              files == first \o Images(names) \o Extras(X, n)
  <2>2. names \in Seq(Name) /\ names # <<>>
    BY SeqOfType, MaxImagesAssumption DEF Names
  <2>3. names[1] \in Name
    <3>1. Len(names) \in Nat \ {0}
      BY <2>2, EmptySeq
    <3>. QED
      BY <2>2, <3>1, ElementOfSeq
  <2>4. <<"thumbnail", None, names[1]>> \in Path
    BY <2>3, <1>n DEF Path, Folder
  <2>5. first \in Seq(Path) /\ Len(first) = 1 /\ first[1] = <<"thumbnail", None, names[1]>>
    BY <2>4
  <2>6. Images(names) \in Seq(Path) /\ Extras(X, n) \in Seq(Path)
    BY FilesType
  <2>. HIDE DEF first
  <2>7. files \in Seq(Path) /\ Len(files) \in Nat /\ Len(files) >= 1
        /\ files[1] = <<"thumbnail", None, names[1]>>
    <3>1. /\ first \o Images(names) \in Seq(Path)
          /\ Len(first \o Images(names)) = 1 + Len(Images(names))
          /\ Len(Images(names)) \in Nat
          /\ (first \o Images(names))[1] = first[1]
      <4>1. Len(first) >= 1
        BY <2>5
      <4>2. Len(Images(names)) \in Nat
        BY <2>6, LenProperties
      <4>. QED
        BY <4>1, <4>2, <2>5, <2>6, ConcatHead
    <3>2. /\ files \in Seq(Path)
          /\ Len(files) = 1 + Len(Images(names)) + Len(Extras(X, n))
          /\ Len(Extras(X, n)) \in Nat
          /\ files[1] = first[1]
      <4>1. Len(first \o Images(names)) >= 1
        BY <3>1
      <4>2. Len(Extras(X, n)) \in Nat
        BY <2>6, LenProperties
      <4>. QED
        BY <4>1, <4>2, <2>6, <3>1, ConcatHead
    <3>. QED
      BY <2>5, <3>1, <3>2
  <2>8. Ask("create", u, None, files)
    BY <2>1 DEF first
  <2>. HIDE DEF files
  <2>9. \E p \in ToSet(files) : p[1] = "thumbnail"
    <3>1. 1 \in DOMAIN files
      BY <2>7, LenProperties
    <3>2. files[1] \in ToSet(files) /\ files[1][1] = "thumbnail"
      BY <2>7, <3>1 DEF ToSet
    <3>. QED
      BY <3>2
  <2>10. IsTable(request', Request, RequestRow) /\ RequestsFit'
    BY <1>t, <1>n, <1>s, <2>7, <2>8, <2>9, AskFits
  <2>. QED
    BY <1>s, <2>10, RowsUntouched
<1>2. ASSUME NEW u \in User, AskToIdentify(u)
      PROVE  IInv'
  <2>1. PICK K \in SUBSET Kind, n \in Name :
            Ask("identity", u, None, SetToSeq({<<k, u, n>> : k \in K}))
    BY <1>2 DEF AskToIdentify
  <2>. DEFINE files == SetToSeq({<<k, u, n>> : k \in K})
  <2>2. files \in Seq(Path) /\ Ask("identity", u, None, files)
    BY <2>1, FilesType
  <2>. HIDE DEF files
  <2>3. IsTable(request', Request, RequestRow) /\ RequestsFit'
    BY <1>t, <1>n, <1>s, <2>2, AskFits
  <2>. QED
    BY <1>s, <2>3, RowsUntouched
<1>f. \A m \in Nat, folder \in {"signature", "scam", "update-images", "picture"},
         x \in Optional(User \cup Organization \cup Campaign) :
          \A names \in SeqOf(Name, m) :
              [i \in DOMAIN names |-> <<folder, x, names[i]>>] \in Seq(Path)
  BY FilesType DEF Folder
<1>3. ASSUME NEW c \in Campaign, AskToSign(c)
      PROVE  IInv'
  <2>1. PICK names \in SeqOf(Name, 1) :
            Ask("signature", None, c,
                [i \in DOMAIN names |-> <<"signature", c, names[i]>>])
    BY <1>3 DEF AskToSign
  <2>. DEFINE files == [i \in DOMAIN names |-> <<"signature", c, names[i]>>]
  <2>2. files \in Seq(Path) /\ Ask("signature", None, c, files)
    BY <2>1, <1>f, <1>n
  <2>. HIDE DEF files
  <2>3. IsTable(request', Request, RequestRow) /\ RequestsFit'
    BY <1>t, <1>n, <1>s, <2>2, AskFits
  <2>. QED
    BY <1>s, <2>3, RowsUntouched
<1>4. ASSUME NEW u \in User, NEW c \in Campaign, AskToReport(u, c)
      PROVE  IInv'
  <2>1. PICK names \in Names :
            Ask("report", u, c,
                [i \in DOMAIN names |-> <<"scam", c, names[i]>>])
    BY <1>4 DEF AskToReport
  <2>. DEFINE files == [i \in DOMAIN names |-> <<"scam", c, names[i]>>]
  <2>2. files \in Seq(Path) /\ Ask("report", u, c, files)
    BY <2>1, <1>f, <1>n, MaxImagesAssumption DEF Names
  <2>. HIDE DEF files
  <2>3. IsTable(request', Request, RequestRow) /\ RequestsFit'
    BY <1>t, <1>n, <1>s, <2>2, AskFits
  <2>. QED
    BY <1>s, <2>3, RowsUntouched
<1>5. ASSUME NEW u \in User, NEW c \in Campaign, AskToPost(u, c)
      PROVE  IInv'
  <2>1. PICK names \in Names :
            Ask("post", u, c,
                [i \in DOMAIN names |-> <<"update-images", c, names[i]>>])
    BY <1>5 DEF AskToPost
  <2>. DEFINE files == [i \in DOMAIN names |-> <<"update-images", c, names[i]>>]
  <2>2. files \in Seq(Path) /\ Ask("post", u, c, files)
    BY <2>1, <1>f, <1>n, MaxImagesAssumption DEF Names
  <2>. HIDE DEF files
  <2>3. IsTable(request', Request, RequestRow) /\ RequestsFit'
    BY <1>t, <1>n, <1>s, <2>2, AskFits
  <2>. QED
    BY <1>s, <2>3, RowsUntouched
<1>6. ASSUME NEW x \in User \cup Organization, AskForPicture(x)
      PROVE  IInv'
  <2>. DEFINE whose == IF x \in User THEN x ELSE None
  <2>1. PICK names \in SeqOf(Name, 1) :
            Ask("picture", x, None,
                [i \in DOMAIN names |-> <<"picture", whose, names[i]>>])
    BY <1>6 DEF AskForPicture
  <2>. DEFINE files == [i \in DOMAIN names |-> <<"picture", whose, names[i]>>]
  <2>2. whose \in Optional(User \cup Organization \cup Campaign)
        /\ x \in Optional(User \cup Organization)
    BY DEF Optional
  <2>. HIDE DEF whose
  <2>3. files \in Seq(Path) /\ Ask("picture", x, None, files)
    BY <2>1, <2>2, <1>f
  <2>. HIDE DEF files
  <2>4. IsTable(request', Request, RequestRow) /\ RequestsFit'
    BY <1>t, <1>n, <1>s, <2>2, <2>3, AskFits
  <2>. QED
    BY <1>s, <2>4, RowsUntouched
<1>. QED
  BY <1>1, <1>2, <1>3, <1>4, <1>5, <1>6
-----------------------------------------------------------------------------
(* Steps that write rows                                                   *)

\* What a request with nothing left to upload may rely on.
LEMMA UploadedRow ==
    ASSUME IInv, NEW r, NEW form, Uploaded(r, form)
    PROVE  /\ r \in DOMAIN request /\ request[r].form = form
           /\ Done(r) \subseteq stored /\ Done(r) \subseteq Path
           /\ \A folder, old :
                  /\ old \in Optional(Path) => UrlOr(r, folder, old) \in Optional(Path)
                  /\ old \in Known => UrlOr(r, folder, old) \in Known
<1>1. r \in DOMAIN request /\ request[r].form = form
  BY DEF Uploaded
<1>2. Done(r) \subseteq stored /\ Done(r) \subseteq Path
  BY <1>1, DonePaths DEF IInv, RequestsFit
<1>. QED
  BY <1>1, <1>2, UrlOrIsDone DEF Known, Optional

\* A new campaign names its thumbnail, its images and what else was sent.
LEMMA CreateCampaignKeeps ==
    ASSUME IInv, NEW r \in Request, CreateCampaign(r)
    PROVE  IInv'
<1>. DEFINE c == NewKey(Campaign, campaign)
            row == [userId |-> request[r].userId, signature |-> None,
                    thumbnail |-> UrlOr(r, "thumbnail", None),
                    extra |-> [x \in Extra |-> UrlOr(r, x, None)]]
<1>1. /\ TypeOK /\ RequestsFit /\ CampaignFilesStored /\ ImageFilesStored
      /\ UNCHANGED <<stored, identityVars, otherVars>>
      /\ campaign' = Put(campaign, c, row)
  BY DEF IInv, FilesStored, CreateCampaign
<1>2. /\ r \in DOMAIN request /\ request[r].form = "create"
      /\ Done(r) \subseteq stored /\ Done(r) \subseteq Path
      /\ \A folder : /\ UrlOr(r, folder, None) \in Optional(Path)
                     /\ UrlOr(r, folder, None) \in Known
  BY UploadedRow DEF CreateCampaign, Known, Optional
<1>3. UrlOr(r, "thumbnail", None) \in Path
  BY <1>1, <1>2, ThumbnailIsDone, UrlOrIsDone DEF CreateCampaign
<1>4. request[r].userId \in User
  BY <1>1, <1>2 DEF RequestsFit
<1>5. c \in Campaign
  BY DEF CreateCampaign, NewKey, HasRoom
<1>6. /\ row \in CampaignRow
      /\ row.thumbnail \in Known /\ row.signature \in Known
      /\ \A x \in Extra : row.extra[x] \in Known
  BY <1>2, <1>3, <1>4 DEF CampaignRow, Optional, Known
<1>. HIDE DEF row, c
<1>7. IsTable(campaign', Campaign, CampaignRow)
  BY <1>1, <1>5, <1>6 DEF TypeOK, IsTable, Put
<1>8. CampaignFilesStored'
  BY <1>1, <1>6 DEF CampaignFilesStored, Put, Known
<1>9. IsTable(image', Image, ImageRow) /\ ImageFilesStored'
  BY <1>1, <1>2, <1>5, AddImagesStored DEF CreateCampaign, c
<1>10. IsTable(request', Request, RequestRow) /\ RequestsFit'
  BY <1>1, EndFits DEF CreateCampaign
<1>11. TypeOK'
  BY <1>1, <1>7, <1>9, <1>10 DEF TypeOK, identityVars, otherVars
<1>12. FilesStored'
  BY <1>1, <1>8, <1>9 DEF IInv, FilesStored, EvidenceFilesStored,
         PictureFilesStored, PostedFilesStored, Known, identityVars, otherVars
<1>13. VerdictsAreOnTheNamedFiles'
  BY <1>1 DEF IInv, VerdictsAreOnTheNamedFiles, identityVars
<1>. QED
  BY <1>10, <1>11, <1>12, <1>13 DEF IInv

\* Asking for an update only takes images away.
LEMMA AskToUpdateKeeps ==
    ASSUME IInv, NEW u \in User, NEW c \in Campaign, AskToUpdate(u, c)
    PROVE  IInv'
<1>1. PICK names \in Names, X \in SUBSET Extra,
           kept \in SUBSET {i \in DOMAIN image : image[i].campaignId = c} :
          /\ Ask("update", u, c, Images(names) \o Extras(X, Undefined))
          /\ image' = [i \in {j \in DOMAIN image :
                                 image[j].campaignId = c => j \in kept} |-> image[i]]
  BY DEF AskToUpdate
<1>2. TypeOK /\ RequestsFit /\ UNCHANGED <<stored, campaign, identityVars, otherVars>>
  BY DEF IInv, AskToUpdate
<1>. DEFINE files == Images(names) \o Extras(X, Undefined)
<1>3. files \in Seq(Path)
  BY FilesType, ConcatProperties
<1>4. Ask("update", u, c, files)
  BY <1>1
<1>. HIDE DEF files
<1>5. u \in Optional(User \cup Organization) /\ c \in Optional(Campaign)
  BY DEF Optional
<1>6. IsTable(request', Request, RequestRow) /\ RequestsFit'
  BY <1>2, <1>3, <1>4, <1>5, AskFits
<1>7. IsTable(image', Image, ImageRow) /\ ImageFilesStored'
  BY <1>1, <1>2 DEF TypeOK, IsTable, IInv, FilesStored, ImageFilesStored, Known
<1>8. TypeOK'
  BY <1>2, <1>6, <1>7 DEF TypeOK, identityVars, otherVars
<1>9. FilesStored'
  BY <1>2, <1>7 DEF IInv, FilesStored, CampaignFilesStored, EvidenceFilesStored,
         PictureFilesStored, PostedFilesStored, Known, identityVars, otherVars
<1>10. VerdictsAreOnTheNamedFiles'
  BY <1>2 DEF IInv, VerdictsAreOnTheNamedFiles, identityVars
<1>. QED
  BY <1>6, <1>8, <1>9, <1>10 DEF IInv

\* An update makes the caller the owner and replaces the files it was sent.
LEMMA UpdateCampaignKeeps ==
    ASSUME IInv, NEW r \in Request, UpdateCampaign(r)
    PROVE  IInv'
<1>. DEFINE c == request[r].campaignId
            extra == [x \in Extra |-> UrlOr(r, x, campaign[c].extra[x])]
            row == [campaign[c] EXCEPT !.userId = request[r].userId,
                                       !.extra = extra]
<1>1. /\ TypeOK /\ RequestsFit /\ CampaignFilesStored /\ ImageFilesStored
      /\ UNCHANGED <<stored, identityVars, otherVars>>
      /\ campaign' = [campaign EXCEPT ![c].userId = request[r].userId,
             ![c].extra = [x \in Extra |-> UrlOr(r, x, @[x])]]
  BY DEF IInv, FilesStored, UpdateCampaign
<1>2. /\ r \in DOMAIN request /\ request[r].form = "update"
      /\ Done(r) \subseteq stored /\ Done(r) \subseteq Path
      /\ \A folder, old :
             /\ old \in Optional(Path) => UrlOr(r, folder, old) \in Optional(Path)
             /\ old \in Known => UrlOr(r, folder, old) \in Known
  BY UploadedRow DEF UpdateCampaign
<1>3. request[r].userId \in User /\ c \in Campaign
  BY <1>1, <1>2 DEF RequestsFit
<1>4. IsTable(campaign', Campaign, CampaignRow) /\ CampaignFilesStored'
  <2>1. CASE c \in DOMAIN campaign
    <3>1. campaign[c] \in CampaignRow
      BY <1>1, <2>1 DEF TypeOK, IsTable
    <3>2. /\ \A x \in Extra : campaign[c].extra[x] \in Optional(Path)
          /\ \A x \in Extra : campaign[c].extra[x] \in Known
          /\ campaign[c].thumbnail \in Known /\ campaign[c].signature \in Known
      BY <1>1, <2>1, <3>1 DEF CampaignRow, CampaignFilesStored
    <3>3. extra \in [Extra -> Optional(Path)] /\ \A x \in Extra : extra[x] \in Known
      BY <1>2, <3>2
    <3>4. campaign' = [campaign EXCEPT ![c] = row]
      BY <1>1, <2>1, <3>1 DEF TypeOK, IsTable, CampaignRow
    <3>. HIDE DEF extra
    <3>5. /\ row \in CampaignRow
          /\ row.thumbnail \in Known /\ row.signature \in Known
          /\ \A x \in Extra : row.extra[x] \in Known
      BY <1>3, <3>1, <3>2, <3>3 DEF CampaignRow
    <3>t. IsTable(campaign, Campaign, CampaignRow) /\ row \in CampaignRow
      BY <1>1, <3>5 DEF TypeOK
    <3>. HIDE DEF row, c
    <3>6. IsTable(campaign', Campaign, CampaignRow)
      <4>1. IsTable([campaign EXCEPT ![c] = row], Campaign, CampaignRow)
        BY <2>1, <3>t DEF IsTable
      <4>. QED
        BY <4>1, <3>4
    <3>7. DOMAIN campaign' = DOMAIN campaign
          /\ \A d \in DOMAIN campaign :
                 campaign'[d] = IF d = c THEN row ELSE campaign[d]
      BY <3>4
    <3>8. CampaignFilesStored'
      BY <1>1, <3>5, <3>7 DEF CampaignFilesStored, Known
    <3>. QED
      BY <3>6, <3>8
  <2>2. CASE c \notin DOMAIN campaign
    <3>1. campaign' = campaign
      BY <1>1, <2>2 DEF TypeOK, IsTable
    <3>. QED
      BY <1>1, <3>1 DEF TypeOK, CampaignFilesStored, Known
  <2>. QED
    BY <2>1, <2>2
<1>5. IsTable(image', Image, ImageRow) /\ ImageFilesStored'
  BY <1>1, <1>2, <1>3, AddImagesStored DEF UpdateCampaign
<1>6. IsTable(request', Request, RequestRow) /\ RequestsFit'
  BY <1>1, EndFits DEF UpdateCampaign
<1>7. TypeOK'
  BY <1>1, <1>4, <1>5, <1>6 DEF TypeOK, identityVars, otherVars
<1>8. FilesStored'
  BY <1>1, <1>4, <1>5 DEF IInv, FilesStored, EvidenceFilesStored,
         PictureFilesStored, PostedFilesStored, Known, identityVars, otherVars
<1>9. VerdictsAreOnTheNamedFiles'
  BY <1>1 DEF IInv, VerdictsAreOnTheNamedFiles, identityVars
<1>. QED
  BY <1>6, <1>7, <1>8, <1>9 DEF IInv

\* A signature replaces the old one and puts the owner under review.
LEMMA SignFundraiserKeeps ==
    ASSUME IInv, NEW r \in Request, SignFundraiser(r)
    PROVE  IInv'
<1>. DEFINE c == request[r].campaignId
            row == [campaign[c] EXCEPT
                        !.signature = UrlOr(r, "signature", campaign[c].signature)]
<1>1. /\ TypeOK /\ RequestsFit /\ CampaignFilesStored
      /\ UNCHANGED <<stored, image, evidence, judged, otherVars>>
      /\ campaign' = [campaign EXCEPT ![c].signature = UrlOr(r, "signature", @)]
      /\ identification' =
             [identification EXCEPT ![campaign[c].userId] = "UNDER_REVIEW"]
  BY DEF IInv, FilesStored, SignFundraiser
<1>2. /\ r \in DOMAIN request
      /\ Done(r) \subseteq stored /\ Done(r) \subseteq Path
      /\ \A folder, old :
             /\ old \in Optional(Path) => UrlOr(r, folder, old) \in Optional(Path)
             /\ old \in Known => UrlOr(r, folder, old) \in Known
  BY UploadedRow DEF SignFundraiser
<1>3. IsTable(campaign', Campaign, CampaignRow) /\ CampaignFilesStored'
  <2>1. CASE c \in DOMAIN campaign
    <3>1. campaign[c] \in CampaignRow
      BY <1>1, <2>1 DEF TypeOK, IsTable
    <3>2. /\ campaign[c].signature \in Optional(Path)
          /\ \A x \in Extra : campaign[c].extra[x] \in Known
          /\ campaign[c].thumbnail \in Known /\ campaign[c].signature \in Known
      BY <1>1, <2>1, <3>1 DEF CampaignRow, CampaignFilesStored
    <3>3. campaign' = [campaign EXCEPT ![c] = row]
      BY <1>1, <2>1, <3>1 DEF TypeOK, IsTable, CampaignRow
    <3>4. /\ row \in CampaignRow
          /\ row.thumbnail \in Known /\ row.signature \in Known
          /\ \A x \in Extra : row.extra[x] \in Known
      BY <1>2, <3>1, <3>2 DEF CampaignRow
    <3>t. IsTable(campaign, Campaign, CampaignRow) /\ row \in CampaignRow
      BY <1>1, <3>4 DEF TypeOK
    <3>. HIDE DEF row, c
    <3>5. IsTable(campaign', Campaign, CampaignRow)
      <4>1. IsTable([campaign EXCEPT ![c] = row], Campaign, CampaignRow)
        BY <2>1, <3>t DEF IsTable
      <4>. QED
        BY <4>1, <3>3
    <3>6. DOMAIN campaign' = DOMAIN campaign
          /\ \A d \in DOMAIN campaign :
                 campaign'[d] = IF d = c THEN row ELSE campaign[d]
      BY <3>3
    <3>7. CampaignFilesStored'
      BY <1>1, <3>4, <3>6 DEF CampaignFilesStored, Known
    <3>. QED
      BY <3>5, <3>7
  <2>2. CASE c \notin DOMAIN campaign
    <3>1. campaign' = campaign
      BY <1>1, <2>2 DEF TypeOK, IsTable
    <3>. QED
      BY <1>1, <3>1 DEF TypeOK, CampaignFilesStored, Known
  <2>. QED
    BY <2>1, <2>2
<1>4. IsTable(request', Request, RequestRow) /\ RequestsFit'
  BY <1>1, EndFits DEF SignFundraiser
<1>5. identification' \in [User -> Status]
  BY <1>1 DEF TypeOK, Status
<1>6. TypeOK'
  BY <1>1, <1>3, <1>4, <1>5 DEF TypeOK, otherVars
<1>7. FilesStored'
  BY <1>1, <1>3 DEF IInv, FilesStored, ImageFilesStored, EvidenceFilesStored,
         PictureFilesStored, PostedFilesStored, Known, otherVars
<1>8. VerdictsAreOnTheNamedFiles'
  BY <1>1 DEF IInv, TypeOK, VerdictsAreOnTheNamedFiles
<1>. QED
  BY <1>4, <1>6, <1>7, <1>8 DEF IInv

\* New files of an identity and the review of them come in one update.
LEMMA SubmitIdentityKeeps ==
    ASSUME IInv, NEW r \in Request, SubmitIdentity(r)
    PROVE  IInv'
<1>. DEFINE u == request[r].userId
            files == [k \in Kind |-> UrlOr(r, k, evidence[u][k])]
<1>1. /\ TypeOK /\ RequestsFit /\ EvidenceFilesStored
      /\ UNCHANGED <<stored, campaignVars, judged, otherVars>>
      /\ evidence' = [evidence EXCEPT ![u] = files]
      /\ identification' = [identification EXCEPT ![u] = "UNDER_REVIEW"]
  BY DEF IInv, FilesStored, SubmitIdentity
<1>2. \A folder, old :
          /\ old \in Optional(Path) => UrlOr(r, folder, old) \in Optional(Path)
          /\ old \in Known => UrlOr(r, folder, old) \in Known
  BY UploadedRow DEF SubmitIdentity
<1>3. u \in User => /\ files \in [Kind -> Optional(Path)]
                    /\ \A k \in Kind : files[k] \in Known
  BY <1>1, <1>2 DEF TypeOK, EvidenceFilesStored
<1>. HIDE DEF u, files
<1>4. /\ evidence' \in [User -> [Kind -> Optional(Path)]]
      /\ identification' \in [User -> Status]
      /\ \A v \in User \ {u} : evidence'[v] = evidence[v]
                               /\ identification'[v] = identification[v]
      /\ u \in User => evidence'[u] = files /\ identification'[u] = "UNDER_REVIEW"
  BY <1>1, <1>3 DEF TypeOK, Status
<1>5. EvidenceFilesStored'
  BY <1>1, <1>3, <1>4 DEF EvidenceFilesStored, Known
<1>6. IsTable(request', Request, RequestRow) /\ RequestsFit'
  BY <1>1, EndFits DEF SubmitIdentity
<1>7. TypeOK'
  BY <1>1, <1>4, <1>6 DEF TypeOK, campaignVars, otherVars
<1>8. FilesStored'
  BY <1>1, <1>5 DEF IInv, FilesStored, CampaignFilesStored, ImageFilesStored,
         PictureFilesStored, PostedFilesStored, Known, campaignVars, otherVars
<1>9. VerdictsAreOnTheNamedFiles'
  BY <1>1, <1>4 DEF IInv, VerdictsAreOnTheNamedFiles
<1>. QED
  BY <1>6, <1>7, <1>8, <1>9 DEF IInv

\* A verdict is about the files that the user's row names at that moment.
LEMMA VerdictKeeps ==
    ASSUME IInv, NEW c \in Campaign, NEW s \in {"VERIFIED", "REJECTED"},
           Verdict(c, s)
    PROVE  IInv'
<1>. DEFINE u == campaign[c].userId
<1>1. /\ TypeOK
      /\ UNCHANGED <<stored, campaignVars, evidence, otherVars, request>>
      /\ identification' = [identification EXCEPT ![u] = s]
      /\ judged' = [judged EXCEPT ![u] = evidence[u]]
  BY DEF IInv, Verdict
<1>2. u \in User
  BY <1>1 DEF Verdict, TypeOK, IsTable, CampaignRow
<1>. HIDE DEF u
<1>3. /\ identification' \in [User -> Status]
      /\ judged' \in [User -> [Kind -> Optional(Path)]]
  BY <1>1, <1>2 DEF TypeOK, Status
<1>4. TypeOK'
  BY <1>1, <1>3 DEF TypeOK, campaignVars, otherVars
<1>5. RequestsFit'
  BY <1>1 DEF IInv, RequestsFit, Done
<1>6. FilesStored'
  BY <1>1 DEF IInv, FilesStored, CampaignFilesStored, ImageFilesStored,
         EvidenceFilesStored, PictureFilesStored, PostedFilesStored, Known,
         campaignVars, otherVars
<1>7. VerdictsAreOnTheNamedFiles'
  BY <1>1, <1>2 DEF IInv, TypeOK, VerdictsAreOnTheNamedFiles
<1>. QED
  BY <1>4, <1>5, <1>6, <1>7 DEF IInv

\* Reports and posts name the files that were uploaded for them.
LEMMA ReportsAndPostsKeep ==
    ASSUME IInv, NEW r \in Request, CreateReport(r) \/ CreatePost(r)
    PROVE  IInv'
<1>1. /\ TypeOK /\ RequestsFit
      /\ UNCHANGED <<stored, campaignVars, identityVars, picture>>
      /\ report' \cup post' \subseteq report \cup post \cup Done(r)
      /\ End(r)
  BY DEF IInv, CreateReport, CreatePost
<1>2. Done(r) \subseteq stored /\ Done(r) \subseteq Path
  BY UploadedRow DEF CreateReport, CreatePost
<1>3. IsTable(request', Request, RequestRow) /\ RequestsFit'
  BY <1>1, EndFits
<1>4. TypeOK'
  BY <1>1, <1>2, <1>3 DEF TypeOK, campaignVars, identityVars
<1>5. FilesStored'
  BY <1>1, <1>2 DEF IInv, FilesStored, CampaignFilesStored, ImageFilesStored,
         EvidenceFilesStored, PictureFilesStored, PostedFilesStored, Known,
         campaignVars, identityVars
<1>6. VerdictsAreOnTheNamedFiles'
  BY <1>1 DEF IInv, VerdictsAreOnTheNamedFiles, identityVars
<1>. QED
  BY <1>3, <1>4, <1>5, <1>6 DEF IInv

\* A picture replaces the old one, or the old one stays.
LEMMA UpdatePictureKeeps ==
    ASSUME IInv, NEW r \in Request, UpdatePicture(r)
    PROVE  IInv'
<1>. DEFINE x == request[r].userId
<1>1. /\ TypeOK /\ RequestsFit /\ PictureFilesStored
      /\ UNCHANGED <<stored, campaignVars, identityVars, report, post>>
      /\ picture' = [picture EXCEPT ![x] = UrlOr(r, "picture", picture[x])]
  BY DEF IInv, FilesStored, UpdatePicture
<1>2. \A folder, old :
          /\ old \in Optional(Path) => UrlOr(r, folder, old) \in Optional(Path)
          /\ old \in Known => UrlOr(r, folder, old) \in Known
  BY UploadedRow DEF UpdatePicture
<1>. HIDE DEF x
<1>3. /\ picture' \in [User \cup Organization -> Optional(Path)]
      /\ PictureFilesStored'
  BY <1>1, <1>2 DEF TypeOK, PictureFilesStored, Known
<1>4. IsTable(request', Request, RequestRow) /\ RequestsFit'
  BY <1>1, EndFits DEF UpdatePicture
<1>5. TypeOK'
  BY <1>1, <1>3, <1>4 DEF TypeOK, campaignVars, identityVars
<1>6. FilesStored'
  BY <1>1, <1>3 DEF IInv, FilesStored, CampaignFilesStored, ImageFilesStored,
         EvidenceFilesStored, PostedFilesStored, Known, campaignVars, identityVars
<1>7. VerdictsAreOnTheNamedFiles'
  BY <1>1 DEF IInv, VerdictsAreOnTheNamedFiles, identityVars
<1>. QED
  BY <1>4, <1>5, <1>6, <1>7 DEF IInv

-----------------------------------------------------------------------------
(* The theorems                                                            *)

\* Every step keeps the invariant.
LEMMA InductiveStep == IInv /\ [Next]_vars => IInv'
<1>. SUFFICES ASSUME IInv, [Next]_vars PROVE IInv'
  OBVIOUS
<1>1. CASE SomeoneAsks
  BY <1>1, AsksKeep, AskToUpdateKeeps DEF SomeoneAsks
<1>2. ASSUME NEW r \in Request, Continue(r)
      PROVE  IInv'
  BY <1>2, UploadKeeps, UploadFailsKeeps, RequestFailsKeeps, CreateCampaignKeeps,
     UpdateCampaignKeeps, SignFundraiserKeeps, SubmitIdentityKeeps,
     ReportsAndPostsKeep, UpdatePictureKeeps
     DEF Continue
<1>3. ASSUME NEW c \in Campaign, NEW s \in {"VERIFIED", "REJECTED"}, Verdict(c, s)
      PROVE  IInv'
  BY <1>3, VerdictKeeps
<1>4. CASE UNCHANGED vars
  <2>1. UNCHANGED <<stored, campaignVars, identityVars, otherVars, request>>
    BY <1>4 DEF vars, campaignVars, identityVars, otherVars
  <2>2. /\ IsTable(request', Request, RequestRow) /\ RequestsFit'
        /\ stored' \subseteq Path
    BY <2>1 DEF IInv, TypeOK, RequestsFit, Done
  <2>. QED
    BY <2>1, <2>2, RowsUntouched
<1>. QED
  BY <1>1, <1>2, <1>3, <1>4 DEF Next

LEMMA Invariance == Spec => []IInv
BY InitIInv, InductiveStep, PTL DEF Spec

\* Every state of a specification that keeps Spec has the types that the
\* Prisma schema and the handlers give it: in particular a campaign that
\* CampaignsService.create writes always has an owner and a thumbnail, whatever
\* else was uploaded with it.
THEOREM TypeCorrect == Spec => []TypeOK
<1>1. IInv => TypeOK
  BY DEF IInv
<1>. QED
  BY <1>1, Invariance, PTL

\* Whatever upload fails and whenever the process dies, no row of campaigns,
\* images, identities, reports, posts or pictures names a file that is not in
\* Supabase storage.
THEOREM RowsAreStored == Spec => []RowsNameStoredFiles
<1>1. IInv => RowsNameStoredFiles
  BY FilesStoredSuffices DEF IInv
<1>. QED
  BY <1>1, Invariance, PTL

\* No user is VERIFIED or REJECTED by a verdict on other files than the row
\* names, however submissions of updateLegalIdentity and verdicts interleave.
THEOREM VerdictsStand == Spec => []VerdictsAreOnTheNamedFiles
<1>1. IInv => VerdictsAreOnTheNamedFiles
  BY DEF IInv
<1>. QED
  BY <1>1, Invariance, PTL
=============================================================================
