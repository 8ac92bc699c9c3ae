--------------------------------- MODULE Parts ---------------------------------
(***************************************************************************)
(* Four parts of the servers that share no state: the accounts of a        *)
(* gateway, what it publishes, what is uploaded to it, and the blob        *)
(* sidecar of a relay.  A behaviour is one of the part it starts with; the *)
(* others stand still, as what they did could make no difference.          *)
(***************************************************************************)
EXTENDS Accounts

CONSTANTS
  Rec, NoCall, MaxPublish, MaxBreaks,                            \* RelayPublish
  Uploads, Contents, Files, Covers, Video, ThumbOf, Targets, AudioTargets, RenditionOf,
  SegmentsOf, Matches, Ffmpeg,                                   \* UploadPipeline
  OnlyUpload,   \* bound: the upload that there is where there is one
  OnlyFile,     \* bound: what uploads hold where there are several
  Halves,       \* bound: what is left stored and unmarked where there are several
  Puts, Gets, Chunks, MaxBytes                                   \* BlobSidecar

ASSUME SidecarAssumption == MaxBytes \in Nat

\* What uploads are made of has contents, and the renditions of a video are cut into
\* segments.
ASSUME UploadAssumption ==
  LET names == {"original", "cover", "thumb"}
      videos == {Targets[i] : i \in DOMAIN Targets}
      audios == {AudioTargets[i] : i \in DOMAIN AudioTargets} IN
  /\ Files \subseteq Contents /\ Covers \subseteq Contents \cup {None}
  /\ None \notin Contents \cup {"unchecked", "clear", "match"}
  /\ Ffmpeg \in BOOLEAN
  /\ Targets \in Seq(videos) /\ AudioTargets \in Seq(audios) /\ (videos \cup audios) \cap names = {}
  /\ DOMAIN SegmentsOf \subseteq Contents
  /\ \A r \in DOMAIN SegmentsOf : SegmentsOf[r] \in Seq(Contents)
  /\ \A c \in Files \ Matches :
       /\ ThumbOf[c] \in Contents
       /\ \A a \in videos : RenditionOf[c][a] \in Contents \cap DOMAIN SegmentsOf
       /\ \A a \in audios : RenditionOf[c][a] \in Contents
  /\ \A D \in SUBSET (names \cup videos \cup audios) :
       None \notin [D -> [of : Contents, whole : BOOLEAN]]

VARIABLES
  active,       \* the part that runs
  open, outbox, calls, pending, wire, answers, accepted, asked, sent, refused, lost, breaks,
  status, task, hls, store, rows, indexed, playlists, given, contested,
  put, files, get

pubVars == <<open, outbox, calls, pending, wire, answers, accepted, asked, sent, refused,
             lost, breaks>>
upVars == <<status, task, hls, store, rows, indexed, playlists, given, contested>>
sideVars == <<put, files, get>>
ownVars == <<clock, listening, call, tables, export, begun, torn>>
allVars == <<active, ownVars, pubVars, upVars, sideVars, crashes>>

Pub  == INSTANCE RelayPublish WITH store <- accepted
Up   == INSTANCE UploadPipeline WITH relayed <- given
Side == INSTANCE BlobSidecar

PartsInit ==
  /\ active \in {"accounts", "publish", "one upload", "two uploads", "sidecar"}
  /\ Init /\ (active # "accounts" => clock = 0)
  /\ Pub!Init /\ Up!Init /\ Side!Init

\* One upload of anything, or several of one file without a cover, which leave no more
\* than Halves unmarked.
UploadNext ==
  /\ Up!Next
  /\ IF active = "one upload" THEN \A u \in Uploads \ {OnlyUpload} : status'[u] = "none"
     ELSE /\ \A u \in Uploads : task'[u].file \in {None, OnlyFile} /\ task'[u].cover = None
          /\ \A b \in Up!Blobs :
               store'[b] # Up!Absent /\ rows'[b] # "clear" => b.of \in Halves

PartsNext ==
  /\ UNCHANGED active
  /\ \/ active = "accounts" /\ Next /\ UNCHANGED <<pubVars, upVars, sideVars>>
     \/ active = "publish" /\ Pub!Next /\ UNCHANGED <<ownVars, upVars, sideVars, crashes>>
     \/ /\ active \in {"one upload", "two uploads"} /\ UploadNext
        /\ UNCHANGED <<ownVars, pubVars, sideVars>>
     \/ active = "sidecar" /\ Side!Next /\ UNCHANGED <<ownVars, pubVars, upVars>>

\* As in RelayPublish and UploadPipeline, of the part that runs.
PartsFairness ==
  /\ WF_pubVars(active = "publish" /\ Pub!Connect)
  /\ WF_pubVars(active = "publish" /\ Pub!ReceiveOK)
  /\ WF_pubVars(active = "publish" /\ \E ok \in BOOLEAN : Pub!RelayAnswers(ok))
  /\ \A i \in 1..2 * MaxPublish : WF_pubVars(active = "publish" /\ i \in Pub!Ids /\ Pub!Timeout(i))
  /\ \A u \in Uploads : WF_upVars(active \in {"one upload", "two uploads"} /\ Up!Step(u))

PartsSpec == PartsInit /\ [][PartsNext]_allVars /\ PartsFairness

-----------------------------------------------------------------------------
(* Properties of the parts *)

\* See RelayPublish, UploadPipeline and BlobSidecar.
PublishHolds == Pub!PublishHolds
ReachesTheRelay == Pub!ReachesTheRelay
EveryCallReturns == Pub!EveryCallReturns
StoreIsSound == Up!StoreIsSound
PublishedIsPlayable == Up!PublishedIsPlayable
EveryUploadSettles == Up!EveryUploadSettles
SidecarHolds == Side!SidecarHolds

=============================================================================
