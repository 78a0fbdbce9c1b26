---------------------------- MODULE MediaUploads ----------------------------
(***************************************************************************)
(* MediaService: clients upload straight to S3, and the API keeps a        *)
(* session in Redis from the creation of an upload to its completion. An   *)
(* upload stands for its token and for the object key, both random. Its    *)
(* calls are those of its owner: anybody else's end at getOwnedSession.    *)
(* A call is split where it awaits Redis or S3; either may fail, and the   *)
(* process may die, which leaves the call where it is (Abandon).           *)
(***************************************************************************)
EXTENDS Naturals, FiniteSets, RequestSlots

CONSTANTS
  Uploads,     \* upload tokens
  MediaCalls,  \* slots for calls in flight
  PartCount,   \* parts of a file of 25 MiB or more
  MaxCalls     \* bound: calls begun, and calls lost

ASSUME MediaAssumption ==
  /\ PartCount \in Nat \ {0}
  /\ MaxCalls \in Nat
  /\ NULL \notin {"SINGLE", "MULTIPART", "DECLARED", "OTHER"} \cup Uploads

VARIABLES
  session,    \* media-upload:<token> in Redis: the mode of the session
  multipart,  \* the multipart upload at S3
  part,       \* the parts S3 holds of it
  object,     \* the object at S3
  url,        \* presigned URLs still valid: part numbers, 0 for the whole object
  call,       \* what each call does next
  begun,      \* history: calls begun, or lost
  issued,     \* history: tokens issued
  finished,   \* history: uploads a completion answered with the key
  reput,      \* history: objects put again after a completion had seen them
  strayed     \* history: sessions expired, or never saved

mediaVars == <<session, multipart, part, object, url, call, begun, issued, finished,
               reput, strayed>>

history == <<issued, finished, reput, strayed>>
s3 == <<multipart, part, object, url>>

Mode == {"SINGLE", "MULTIPART"}
Parts == 1..PartCount

\* Bytes of the size and type the session declares, or others. An ETag stands
\* for the bytes of a part.
Bytes == {"DECLARED", "OTHER"}

NoEtags == [p \in Parts |-> "OTHER"]

Step == {"Idle", "CreateMultipart", "SaveSession", "Complete", "Head",
         "DeleteObject", "Abort", "DropRefused", "DropAborted", "DropFinished"}

Call == [at : Step, upload : Uploads \cup {NULL}, mode : Mode, etags : [Parts -> Bytes]]

Idle == [at |-> "Idle", upload |-> NULL, mode |-> "SINGLE", etags |-> NoEtags]

MediaInit ==
  /\ session = [u \in Uploads |-> NULL]
  /\ multipart = [u \in Uploads |-> "NONE"]
  /\ part = [u \in Uploads |-> [p \in Parts |-> NULL]]
  /\ object = [u \in Uploads |-> NULL]
  /\ url = [u \in Uploads |-> {}]
  /\ call = [r \in MediaCalls |-> Idle]
  /\ begun = 0
  /\ issued = {} /\ finished = {} /\ reput = {} /\ strayed = {}

-----------------------------------------------------------------------------
(* Calls *)

\* A free slot takes a call to its first await that changes anything.
Begin(r, step, u, mode, etags) ==
  /\ call[r] = Idle
  /\ begun < MaxCalls
  /\ begun' = begun + 1
  /\ call' = [call EXCEPT ![r] = [at |-> step, upload |-> u, mode |-> mode, etags |-> etags]]

At(r, step) == call[r].at = step
Goto(r, step) == call' = [call EXCEPT ![r].at = step]
Return(r) == call' = [call EXCEPT ![r] = Idle]

\* getOwnedSession, and the check of the mode.
GetOwnedSession(u, mode) == session[u] = mode

-----------------------------------------------------------------------------
(* createUpload *)

BeginCreate(r) ==
  \E u \in Uploads \ issued, mode \in Mode :
    /\ Begin(r, IF mode = "SINGLE" THEN "SaveSession" ELSE "CreateMultipart", u, mode, NoEtags)
    /\ issued' = issued \cup {u}
    /\ UNCHANGED <<session, s3, finished, reput, strayed>>

CreateMultipart(r) ==
  /\ At(r, "CreateMultipart")
  /\ multipart' = [multipart EXCEPT ![call[r].upload] = "OPEN"]
  /\ Goto(r, "SaveSession")
  /\ UNCHANGED <<session, part, object, url, begun, history>>

\* The URL is signed here, without S3, and reaches the client with the answer.
SaveSession(r) ==
  LET u == call[r].upload IN
  /\ At(r, "SaveSession")
  /\ session' = [session EXCEPT ![u] = call[r].mode]
  /\ url' = IF call[r].mode = "SINGLE" THEN [url EXCEPT ![u] = {0}] ELSE url
  /\ Return(r)
  /\ UNCHANGED <<multipart, part, object, begun, history>>

\* signParts, which changes nothing at S3: it reads the session, and answers.
SignParts(u) ==
  /\ GetOwnedSession(u, "MULTIPART")
  /\ \E signed \in SUBSET Parts \ {{}} : url' = [url EXCEPT ![u] = @ \cup signed]
  /\ UNCHANGED <<session, multipart, part, object, call, begun, history>>

-----------------------------------------------------------------------------
(* The client at S3 *)

\* A completion that reads, or has read, the object of u.
Seen(u) ==
  u \in finished \/ \E r \in MediaCalls : call[r].upload = u /\ call[r].at \in
                                          {"DeleteObject", "DropRefused", "DropFinished"}

\* The whole object, as often as the client likes while the URL is good.
PutObject(u, bytes) ==
  /\ 0 \in url[u]
  /\ object' = [object EXCEPT ![u] = bytes]
  /\ reput' = IF Seen(u) THEN reput \cup {u} ELSE reput
  /\ UNCHANGED <<session, multipart, part, url, call, begun, issued, finished, strayed>>

\* S3 takes the parts of an upload that is still open.
PutPart(u, p, bytes) ==
  /\ p \in url[u]
  /\ multipart[u] = "OPEN"
  /\ part' = [part EXCEPT ![u][p] = bytes]
  /\ UNCHANGED <<session, multipart, object, url, call, begun, history>>

\* The fifteen minutes of a URL are over.
UrlExpires(u, p) ==
  /\ p \in url[u]
  /\ url' = [url EXCEPT ![u] = @ \ {p}]
  /\ UNCHANGED <<session, multipart, part, object, call, begun, history>>

-----------------------------------------------------------------------------
(* completeMultipart and completeSingle *)

\* The list names every part, once, with the ETag the client holds for it.
BeginCompleteMultipart(r) ==
  \E u \in Uploads, etags \in [Parts -> Bytes] :
    /\ GetOwnedSession(u, "MULTIPART")
    /\ Begin(r, "Complete", u, "MULTIPART", etags)
    /\ UNCHANGED <<session, s3, history>>

BeginCompleteSingle(r) ==
  \E u \in Uploads :
    /\ GetOwnedSession(u, "SINGLE")
    /\ Begin(r, "Head", u, "SINGLE", NoEtags)
    /\ UNCHANGED <<session, s3, history>>

\* S3 puts the parts together, if it holds them under these ETags. Asked
\* again, it may answer as it did, or no longer know the upload.
CompleteMultipart(r) ==
  LET u == call[r].upload IN
  /\ At(r, "Complete")
  /\ \/ /\ multipart[u] = "OPEN"
        /\ part[u] = call[r].etags
        /\ multipart' = [multipart EXCEPT ![u] = "COMPLETED"]
        /\ object' = [object EXCEPT ![u] = IF \A p \in Parts : part[u][p] = "DECLARED"
                                             THEN "DECLARED" ELSE "OTHER"]
        /\ Goto(r, "Head")
     \/ /\ multipart[u] = "COMPLETED"
        /\ Goto(r, "Head") \/ Return(r)
        /\ UNCHANGED <<multipart, object>>
     \/ /\ multipart[u] = "ABORTED" \/ (multipart[u] = "OPEN" /\ part[u] # call[r].etags)
        /\ Return(r)
        /\ UNCHANGED <<multipart, object>>
  /\ UNCHANGED <<session, part, url, begun, history>>

\* Mutant: the object is there, and that is good enough.
VerifiedByPresence(bytes) == bytes # NULL

\* Size and type are the declared ones.
Verified(bytes) == bytes = "DECLARED"

\* getObjectMetadata throws where there is no object.
HeadObject(r) ==
  LET u == call[r].upload IN
  /\ At(r, "Head")
  /\ IF object[u] = NULL THEN Return(r)
     ELSE IF Verified(object[u]) THEN Goto(r, "DropFinished") ELSE Goto(r, "DeleteObject")
  /\ UNCHANGED <<session, s3, begun, history>>

\* What was read of the object may no longer be there.
DeleteObject(r) ==
  /\ At(r, "DeleteObject")
  /\ object' = [object EXCEPT ![call[r].upload] = NULL]
  /\ Goto(r, "DropRefused")
  /\ UNCHANGED <<session, multipart, part, url, begun, history>>

\* The session goes, and the call answers: with the key if it finishes.
DropSession(r) ==
  LET u == call[r].upload IN
  /\ call[r].at \in {"DropRefused", "DropAborted", "DropFinished"}
  /\ session' = [session EXCEPT ![u] = NULL]
  /\ finished' = IF At(r, "DropFinished") THEN finished \cup {u} ELSE finished
  /\ Return(r)
  /\ UNCHANGED <<s3, begun, issued, reput, strayed>>

-----------------------------------------------------------------------------
(* abort *)

\* The bytes of an object put in one piece are left where they are.
BeginAbort(r) ==
  \E u \in Uploads, mode \in Mode :
    /\ GetOwnedSession(u, mode)
    /\ Begin(r, IF mode = "MULTIPART" THEN "Abort" ELSE "DropAborted", u, mode, NoEtags)
    /\ UNCHANGED <<session, s3, history>>

\* Mutant: the session is dropped whether or not S3 knows the upload by now.
AbortForgetting(r) ==
  /\ At(r, "Abort")
  /\ \/ multipart' = [multipart EXCEPT ![call[r].upload] = "ABORTED"]
     \/ UNCHANGED multipart
  /\ Goto(r, "DropAborted")
  /\ UNCHANGED <<session, part, object, url, begun, history>>

\* S3 refuses to abort what it no longer holds.
AbortMultipart(r) ==
  LET u == call[r].upload IN
  /\ At(r, "Abort")
  /\ IF multipart[u] = "OPEN"
       THEN multipart' = [multipart EXCEPT ![u] = "ABORTED"] /\ Goto(r, "DropAborted")
       ELSE UNCHANGED multipart /\ Return(r)
  /\ UNCHANGED <<session, part, object, url, begun, history>>

-----------------------------------------------------------------------------

\* Twenty-four hours are over.
SessionExpires(u) ==
  /\ session[u] # NULL
  /\ session' = [session EXCEPT ![u] = NULL]
  /\ strayed' = strayed \cup {u}
  /\ UNCHANGED <<s3, call, begun, issued, finished, reput>>

\* Redis or S3 fails the call, or the process dies.
Abandon(r) ==
  /\ call[r] # Idle
  /\ begun < MaxCalls
  /\ begun' = begun + 1
  /\ strayed' = IF At(r, "SaveSession") THEN strayed \cup {call[r].upload} ELSE strayed
  /\ Return(r)
  /\ UNCHANGED <<session, s3, issued, finished, reput>>

Serve(r) ==
  \/ BeginCreate(r) \/ BeginCompleteMultipart(r) \/ BeginCompleteSingle(r) \/ BeginAbort(r)
  \/ CreateMultipart(r) \/ SaveSession(r) \/ CompleteMultipart(r) \/ HeadObject(r)
  \/ DeleteObject(r) \/ AbortMultipart(r) \/ DropSession(r) \/ Abandon(r)

Client(u) ==
  \/ SignParts(u)
  \/ \E bytes \in Bytes : PutObject(u, bytes) \/ \E p \in Parts : PutPart(u, p, bytes)
  \/ \E p \in 0..PartCount : UrlExpires(u, p)
  \/ SessionExpires(u)

MediaNext == (\E r \in MediaCalls : Serve(r)) \/ \E u \in Uploads : Client(u)

MediaSpec == MediaInit /\ [][MediaNext]_mediaVars

-----------------------------------------------------------------------------
(* Properties *)

MediaTypeOK ==
  /\ session \in [Uploads -> Mode \cup {NULL}]
  /\ multipart \in [Uploads -> {"NONE", "OPEN", "COMPLETED", "ABORTED"}]
  /\ part \in [Uploads -> [Parts -> Bytes \cup {NULL}]]
  /\ object \in [Uploads -> Bytes \cup {NULL}]
  /\ url \in [Uploads -> SUBSET (0..PartCount)]
  /\ call \in [MediaCalls -> Call]
  /\ begun \in 0..MaxCalls
  /\ issued \subseteq Uploads /\ finished \subseteq Uploads
  /\ reput \subseteq Uploads /\ strayed \subseteq Uploads

\* A key that a completion answered with names an object of the declared size
\* and type, however completions and aborts of the upload overlapped or died
\* half-way, unless the client put the object again behind a completion that
\* had looked at it (verifyAndFinish, which deletes what it refuses).
FinishedIsStored == \A u \in finished : object[u] = "DECLARED" \/ u \in reput

\* An open multipart upload at S3 has its session in Redis, which is what abort
\* and completeMultipart need, or a call that is about to save it; but for a
\* session that expired or that a lost call never saved. The order of the steps
\* in abort, completeMultipart and verifyAndFinish sees to it. Whether a client
\* knows the token of the session is not said: the answer that carried it may
\* have been lost.
OpenUploadHasSession ==
  \A u \in Uploads \ strayed :
    multipart[u] = "OPEN" =>
      session[u] = "MULTIPART" \/ \E r \in MediaCalls : At(r, "SaveSession") /\ call[r].upload = u
=============================================================================
