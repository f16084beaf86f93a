----------------------------- MODULE Submissions -----------------------------
(***************************************************************************)
(* What users hand in with files: campaigns and their updates, fundraiser  *)
(* signatures, legal identities, scam reports, posts of progress, profile  *)
(* and organization pictures (src/campaigns, src/users, src/scam-reports,  *)
(* src/campaign-updates, src/organizations, src/storage).                  *)
(*                                                                         *)
(* Every one of these handlers uploads its files one by one and then       *)
(* writes a row that names them.  A failing upload ends the handler (a     *)
(* post goes on without the file); what it uploaded and deleted before     *)
(* stays so.  Requests interleave between uploads, and with the admin's    *)
(* verdict on an identity.                                                 *)
(***************************************************************************)
EXTENDS Tables, Naturals, Sequences, SequencesExt

CONSTANTS
    User,
    Organization,
    Campaign,
    Image,          \* ids of rows of campaign_images
    Name,           \* original names of uploaded files
    Request,        \* requests being handled; a request that ends frees its id
    Form,           \* the handlers users ask for
    Kind,           \* the files of an identity: selfie, id-front and id-back
    Extra,          \* the other files of a campaign: videos, beneficiary-images
    MaxImages,      \* bound on the images of one request (5 in the controllers)
    None,           \* null
    Undefined       \* the originalname of an array of files

ASSUME NoneAssumption ==
    None \notin User \cup Organization \cup Campaign /\ Undefined \notin Name

ASSUME MaxImagesAssumption == MaxImages \in Nat

ASSUME FolderAssumption ==
    /\ Kind \subseteq {"selfie", "id-front", "id-back"}
    /\ Extra \subseteq {"videos", "beneficiary-images"}

VARIABLES
    stored,         \* paths of the objects in Supabase storage
    campaign,       \* table campaigns: owner and files
    image,          \* table campaign_images
    evidence,       \* users.selfieImageUrl, idFrontImageUrl, idBackImageUrl
    identification, \* users.identificationStatus
    judged,         \* history: the evidence of the user when last judged
    report,         \* files named by rows of scam_reports
    post,           \* files named by rows of campaign_updates
    picture,        \* imageUrl of users and organizations
    request

campaignVars == <<campaign, image>>
identityVars == <<evidence, identification, judged>>
otherVars == <<report, post, picture>>
vars == <<stored, campaign, image, evidence, identification, judged, report,
          post, picture, request>>

-----------------------------------------------------------------------------
Optional(S) == S \cup {None}
Status == {"PENDING", "UNDER_REVIEW", "VERIFIED", "REJECTED"}

\* Where a file goes: a folder, whose it is if the folder says so, its name.
\* Two files of one name in one folder are one object (upsert: true).
Folder == Kind \cup Extra \cup
          {"thumbnail", "images", "signature", "scam", "update-images", "picture"}
Path == Folder \X Optional(User \cup Organization \cup Campaign)
               \X (Name \cup {Undefined})

CampaignRow == [userId: User, thumbnail: Path, signature: Optional(Path),
                extra: [Extra -> Optional(Path)]]
ImageRow == [campaignId: Campaign, imageUrl: Path]
RequestRow == [form: Form, userId: Optional(User \cup Organization),
               campaignId: Optional(Campaign),
               files: Seq(Path),    \* still to be uploaded
               done: Seq(Path)]     \* their URLs so far

TypeOK ==
    /\ stored \subseteq Path
    /\ IsTable(campaign, Campaign, CampaignRow)
    /\ IsTable(image, Image, ImageRow)
    /\ evidence \in [User -> [Kind -> Optional(Path)]]
    /\ identification \in [User -> Status]
    /\ judged \in [User -> [Kind -> Optional(Path)]]
    /\ report \subseteq Path
    /\ post \subseteq Path
    /\ picture \in [User \cup Organization -> Optional(Path)]
    /\ IsTable(request, Request, RequestRow)

NoEvidence == [k \in Kind |-> None]

Init ==
    /\ stored = {}
    /\ campaign = EmptyTable
    /\ image = EmptyTable
    /\ evidence = [u \in User |-> NoEvidence]
    /\ identification = [u \in User |-> "PENDING"]
    /\ judged = [u \in User |-> NoEvidence]
    /\ report = {}
    /\ post = {}
    /\ picture = [x \in User \cup Organization |-> None]
    /\ request = EmptyTable

-----------------------------------------------------------------------------
(* Requests and uploads                                                    *)

Ask(form, u, c, files) ==
    /\ form \in Form
    /\ HasRoom(Request, request)
    /\ request' = Put(request, NewKey(Request, request),
          [form |-> form, userId |-> u, campaignId |-> c,
           files |-> files, done |-> <<>>])

End(r) == request' = Drop(request, r)

\* Request r is of this form and has uploaded all its files.
Uploaded(r, form) ==
    /\ r \in DOMAIN request
    /\ request[r].form = form
    /\ request[r].files = <<>>

Done(r) == ToSet(request[r].done)

\* The URL among the done files of r that is in this folder, or old.
UrlOr(r, folder, old) ==
    IF \E p \in Done(r) : p[1] = folder
    THEN CHOOSE p \in Done(r) : p[1] = folder
    ELSE old

Uploading(r) == r \in DOMAIN request /\ request[r].files # <<>>

\* StorageService.uploadFile
Upload(r) ==
    LET file == Head(request[r].files) IN
    /\ Uploading(r)
    /\ stored' = stored \cup {file}
    /\ request' = [request EXCEPT ![r].files = Tail(@),
                                  ![r].done = Append(@, file)]
    /\ UNCHANGED <<campaignVars, identityVars, otherVars>>

\* Mutant of UploadFails: nobody looks at the error.
UploadFailsUnnoticed(r) ==
    /\ Uploading(r)
    /\ request' = [request EXCEPT ![r].files = Tail(@),
                                  ![r].done = Append(@, Head(request[r].files))]
    /\ UNCHANGED <<stored, campaignVars, identityVars, otherVars>>

\* Storage answers an error: a post does without the file, all others end.
UploadFails(r) ==
    /\ Uploading(r)
    /\ IF request[r].form = "post"
       THEN request' = [request EXCEPT ![r].files = Tail(@)]
       ELSE End(r)
    /\ UNCHANGED <<stored, campaignVars, identityVars, otherVars>>

\* An await throws, or the process dies.
RequestFails(r) ==
    /\ r \in DOMAIN request
    /\ End(r)
    /\ UNCHANGED <<stored, campaignVars, identityVars, otherVars>>

-----------------------------------------------------------------------------
(* Campaigns                                                               *)

\* Up to MaxImages names, of files some user picked.
Names == SeqOf(Name, MaxImages)
Images(names) == [i \in DOMAIN names |-> <<"images", None, names[i]>>]
Extras(X, n) == SetToSeq({<<x, None, n>> : x \in X})

\* campaign_images.createMany: a row of c for each URL, under new ids.
AddImages(table, c, urls) ==
    LET free == Image \ DOMAIN table
        id == CHOOSE f \in [DOMAIN urls -> free] :
                  \A i, j \in DOMAIN urls : f[i] = f[j] => i = j
        rows == [k \in {id[i] : i \in DOMAIN urls} |->
                    [campaignId |-> c,
                     imageUrl |-> urls[CHOOSE i \in DOMAIN urls : id[i] = k]]]
    IN  [k \in DOMAIN table \cup DOMAIN rows |->
            IF k \in DOMAIN rows THEN rows[k] ELSE table[k]]

\* Bound: there are ids left for the images of r.
RoomForImages(urls) ==
    \E f \in [DOMAIN urls -> Image \ DOMAIN image] :
        \A i, j \in DOMAIN urls : f[i] = f[j] => i = j

\* The done files of r that are images, each at its place in the uploads.
NewImages(r) ==
    LET done == request[r].done
    IN  [i \in {j \in DOMAIN done : done[j][1] = "images"} |-> done[i]]

\* CampaignsController.create: "campaign images is required".  The first image
\* is uploaded once more as the thumbnail.
AskToCreate(u) ==
    \E names \in Names \ {<<>>}, X \in SUBSET Extra, n \in Name :
        /\ Ask("create", u, None,
               <<<<"thumbnail", None, names[1]>>>>
                   \o Images(names) \o Extras(X, n))
        /\ UNCHANGED <<stored, campaignVars, identityVars, otherVars>>

\* Mutant of CreateCampaign: the thumbnail is looked for in a wrong folder.
CreateCampaignNoThumbnail(r) ==
    LET c == NewKey(Campaign, campaign) IN
    /\ Uploaded(r, "create")
    /\ HasRoom(Campaign, campaign)
    /\ RoomForImages(NewImages(r))
    /\ campaign' = Put(campaign, c,
          [userId |-> request[r].userId, signature |-> None,
           thumbnail |-> UrlOr(r, "signature", None),
           extra |-> [x \in Extra |-> UrlOr(r, x, None)]])
    /\ image' = AddImages(image, c, NewImages(r))
    /\ End(r)
    /\ UNCHANGED <<stored, identityVars, otherVars>>

\* campaign.create with its images in one statement.
CreateCampaign(r) ==
    LET c == NewKey(Campaign, campaign) IN
    /\ Uploaded(r, "create")
    /\ HasRoom(Campaign, campaign)
    /\ RoomForImages(NewImages(r))
    /\ campaign' = Put(campaign, c,
          [userId |-> request[r].userId, signature |-> None,
           thumbnail |-> UrlOr(r, "thumbnail", None),
           extra |-> [x \in Extra |-> UrlOr(r, x, None)]])
    /\ image' = AddImages(image, c, NewImages(r))
    /\ End(r)
    /\ UNCHANGED <<stored, identityVars, otherVars>>

\* CampaignsController.update first deletes the images that the client does
\* not list in oriCampaignImagesId (all of them if the list is empty).  The
\* video and the beneficiary image are arrays of one file, which have no
\* originalname.
AskToUpdate(u, c) ==
    \E names \in Names, X \in SUBSET Extra,
       kept \in SUBSET {i \in DOMAIN image : image[i].campaignId = c} :
        /\ c \in DOMAIN campaign
        /\ Ask("update", u, c, Images(names) \o Extras(X, Undefined))
        /\ image' = [i \in {j \in DOMAIN image :
                               image[j].campaignId = c => j \in kept} |-> image[i]]
        /\ UNCHANGED <<stored, campaign, identityVars, otherVars>>

\* The update makes the caller the owner (user: { connect: { id: userId } }).
UpdateCampaign(r) ==
    LET c == request[r].campaignId IN
    /\ Uploaded(r, "update")
    /\ RoomForImages(NewImages(r))
    /\ campaign' = [campaign EXCEPT ![c].userId = request[r].userId,
           ![c].extra = [x \in Extra |-> UrlOr(r, x, @[x])]]
    /\ image' = AddImages(image, c, NewImages(r))
    /\ End(r)
    /\ UNCHANGED <<stored, identityVars, otherVars>>

\* CampaignsService.updateFundraiser
AskToSign(c) ==
    \E names \in SeqOf(Name, 1) :
        /\ c \in DOMAIN campaign
        /\ Ask("signature", None, c,
               [i \in DOMAIN names |-> <<"signature", c, names[i]>>])
        /\ UNCHANGED <<stored, campaignVars, identityVars, otherVars>>

SignFundraiser(r) ==
    LET c == request[r].campaignId IN
    /\ Uploaded(r, "signature")
    /\ campaign' = [campaign EXCEPT ![c].signature = UrlOr(r, "signature", @)]
    /\ identification' =
           [identification EXCEPT ![campaign[c].userId] = "UNDER_REVIEW"]
    /\ End(r)
    /\ UNCHANGED <<stored, image, evidence, judged, otherVars>>

-----------------------------------------------------------------------------
(* Identities                                                              *)

\* UsersService.updateLegalIdentity, with any of the three files.
AskToIdentify(u) ==
    \E K \in SUBSET Kind, n \in Name :
        /\ Ask("identity", u, None, SetToSeq({<<k, u, n>> : k \in K}))
        /\ UNCHANGED <<stored, campaignVars, identityVars, otherVars>>

\* Mutant of SubmitIdentity: the status is left to the admin.
SubmitIdentityQuietly(r) ==
    LET u == request[r].userId IN
    /\ Uploaded(r, "identity")
    /\ evidence' = [evidence EXCEPT ![u] = [k \in Kind |-> UrlOr(r, k, @[k])]]
    /\ End(r)
    /\ UNCHANGED <<stored, campaignVars, identification, judged, otherVars>>

\* Files that were not sent are undefined, which leaves their columns alone.
SubmitIdentity(r) ==
    LET u == request[r].userId IN
    /\ Uploaded(r, "identity")
    /\ evidence' = [evidence EXCEPT ![u] = [k \in Kind |-> UrlOr(r, k, @[k])]]
    /\ identification' = [identification EXCEPT ![u] = "UNDER_REVIEW"]
    /\ End(r)
    /\ UNCHANGED <<stored, campaignVars, judged, otherVars>>

\* CampaignsService.adminUpdateCampaign, as far as it judges the owner of the
\* campaign; its status and its notices are modelled in Notices.
Verdict(c, s) ==
    LET u == campaign[c].userId IN
    /\ c \in DOMAIN campaign
    /\ identification' = [identification EXCEPT ![u] = s]
    /\ judged' = [judged EXCEPT ![u] = evidence[u]]
    /\ UNCHANGED <<stored, campaignVars, evidence, otherVars, request>>

-----------------------------------------------------------------------------
(* Reports, posts and pictures                                             *)

\* ScamReportsService.create; evidence images and documents alike.
AskToReport(u, c) ==
    \E names \in Names :
        /\ Ask("report", u, c,
               [i \in DOMAIN names |-> <<"scam", c, names[i]>>])
        /\ UNCHANGED <<stored, campaignVars, identityVars, otherVars>>

CreateReport(r) ==
    /\ Uploaded(r, "report")
    /\ request[r].campaignId \in DOMAIN campaign
    /\ report' = report \cup Done(r)
    /\ End(r)
    /\ UNCHANGED <<stored, campaignVars, identityVars, post, picture>>

\* CampaignUpdatesService.create
AskToPost(u, c) ==
    \E names \in Names :
        /\ Ask("post", u, c,
               [i \in DOMAIN names |-> <<"update-images", c, names[i]>>])
        /\ UNCHANGED <<stored, campaignVars, identityVars, otherVars>>

CreatePost(r) ==
    /\ Uploaded(r, "post")
    /\ request[r].campaignId \in DOMAIN campaign
    /\ post' = post \cup Done(r)
    /\ End(r)
    /\ UNCHANGED <<stored, campaignVars, identityVars, report, picture>>

\* UsersService.updateProfile and OrganizationsService.update; organizations
\* share one folder.
AskForPicture(x) ==
    \E names \in SeqOf(Name, 1) :
        /\ Ask("picture", x, None,
               [i \in DOMAIN names |->
                   <<"picture", IF x \in User THEN x ELSE None, names[i]>>])
        /\ UNCHANGED <<stored, campaignVars, identityVars, otherVars>>

UpdatePicture(r) ==
    /\ Uploaded(r, "picture")
    /\ picture' = [picture EXCEPT ![request[r].userId] = UrlOr(r, "picture", @)]
    /\ End(r)
    /\ UNCHANGED <<stored, campaignVars, identityVars, report, post>>

-----------------------------------------------------------------------------
SomeoneAsks ==
    \/ \E u \in User : AskToCreate(u) \/ AskToIdentify(u)
    \/ \E c \in Campaign : AskToSign(c)
    \/ \E u \in User, c \in Campaign :
           AskToUpdate(u, c) \/ AskToReport(u, c) \/ AskToPost(u, c)
    \/ \E x \in User \cup Organization : AskForPicture(x)

Continue(r) ==
    \/ Upload(r) \/ UploadFails(r) \/ RequestFails(r)
    \/ CreateCampaign(r) \/ UpdateCampaign(r) \/ SignFundraiser(r)
    \/ SubmitIdentity(r)
    \/ CreateReport(r) \/ CreatePost(r) \/ UpdatePicture(r)

Next ==
    \/ SomeoneAsks
    \/ \E r \in Request : Continue(r)
    \/ \E c \in Campaign, s \in {"VERIFIED", "REJECTED"} : Verdict(c, s)

Spec == Init /\ [][Next]_vars

-----------------------------------------------------------------------------
(* Properties                                                              *)

\* The paths that rows name.
Named ==
    {campaign[c].thumbnail : c \in DOMAIN campaign}
    \cup {campaign[c].signature : c \in DOMAIN campaign}
    \cup {campaign[c].extra[x] : c \in DOMAIN campaign, x \in Extra}
    \cup {image[i].imageUrl : i \in DOMAIN image}
    \cup {evidence[u][k] : u \in User, k \in Kind}
    \cup {picture[x] : x \in User \cup Organization}
    \cup report \cup post

\* No row names a file that is not in storage, whatever upload failed and
\* whenever the process died.
RowsNameStoredFiles == Named \subseteq stored \cup {None}

\* A verdict on an identity is about the files its row names: new files put the
\* user under review in the very update that names them, so that no user is
\* VERIFIED by files that came after the verdict.
VerdictsAreOnTheNamedFiles ==
    \A u \in User :
        identification[u] \in {"VERIFIED", "REJECTED"} => judged[u] = evidence[u]
=============================================================================
