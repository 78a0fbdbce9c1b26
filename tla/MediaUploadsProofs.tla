-------------------------- MODULE MediaUploadsProofs --------------------------
(***************************************************************************)
(* Proofs about MediaUploads, for any number of uploads, of parts and of   *)
(* calls at a time.                                                        *)
(***************************************************************************)
EXTENDS Listings, TLAPS

\* Steps at which a call has created nothing a client could know of yet, and
\* steps that come after S3 has put the parts together or forgotten them.
Creating == {"CreateMultipart", "SaveSession"}
Closing == {"Head", "DeleteObject", "DropRefused", "DropAborted", "DropFinished"}

\* Every call but the idle ones is about an upload whose token was issued.
CallsKnown ==
  \A r \in MediaCalls : call[r].at # "Idle" => call[r].upload \in issued

\* What was never issued is not there, nor finished.
UnissuedAbsent ==
  \A u \in Uploads \ issued :
    session[u] = NULL /\ multipart[u] = "NONE" /\ u \notin finished

\* The call that creates an upload is alone with it.
CreatorAlone ==
  \A r \in MediaCalls :
    call[r].at \in Creating =>
      LET u == call[r].upload IN
      /\ session[u] = NULL /\ u \notin finished
      /\ call[r].at = "CreateMultipart" => call[r].mode = "MULTIPART"
      /\ multipart[u] = (IF call[r].at = "SaveSession" /\ call[r].mode = "MULTIPART"
                           THEN "OPEN" ELSE "NONE")
      /\ \A q \in MediaCalls \ {r} : call[q].at # "Idle" => call[q].upload # u

\* Nothing about to end a session, and no finished upload, has one open at S3.
ClosedBefore ==
  /\ \A r \in MediaCalls : call[r].at \in Closing => multipart[call[r].upload] # "OPEN"
  /\ \A u \in Uploads : u \in finished \/ session[u] = "SINGLE" => multipart[u] # "OPEN"

\* The object is as the last completion that has looked at it found it, unless
\* the client has put it again since.
LooksHold ==
  \A r \in MediaCalls :
    LET u == call[r].upload IN
    /\ call[r].at = "DropFinished" => object[u] = "DECLARED" \/ u \in reput
    /\ call[r].at \in {"DeleteObject", "DropRefused"} => object[u] # "DECLARED" \/ u \in reput

UploadInv ==
  /\ CallsKnown
  /\ UnissuedAbsent
  /\ CreatorAlone
  /\ ClosedBefore
  /\ LooksHold
  /\ OpenUploadHasSession
  /\ FinishedIsStored

IInv == MediaTypeOK /\ UploadInv

-----------------------------------------------------------------------------
(* Type correctness *)

LEMMA CallTypes ==
  /\ Idle \in Call
  /\ \A step \in Step, u \in Uploads, mode \in Mode, etags \in [Parts -> Bytes] :
       [at |-> step, upload |-> u, mode |-> mode, etags |-> etags] \in Call
  /\ NoEtags \in [Parts -> Bytes]
  /\ \A c \in Call, step \in Step : [c EXCEPT !.at = step] \in Call
BY DEF Idle, Call, Step, Mode, Bytes, NoEtags

LEMMA BeginType ==
  ASSUME MediaTypeOK, NEW r \in MediaCalls, NEW step \in Step, NEW u \in Uploads, NEW mode \in Mode,
         NEW etags \in [Parts -> Bytes], Begin(r, step, u, mode, etags)
  PROVE  call' \in [MediaCalls -> Call] /\ begun' \in 0..MaxCalls
BY CallTypes, MediaAssumption DEF Begin, MediaTypeOK

LEMMA MoveType ==
  ASSUME MediaTypeOK, NEW r \in MediaCalls, NEW step \in Step, Goto(r, step) \/ Return(r)
  PROVE  call' \in [MediaCalls -> Call]
BY CallTypes DEF Goto, Return, MediaTypeOK

LEMMA InitType == MediaInit => MediaTypeOK
BY CallTypes, MediaAssumption DEF MediaInit, MediaTypeOK, Mode, Bytes

LEMMA ServeType ==
  ASSUME MediaTypeOK, CallsKnown, NEW r \in MediaCalls, Serve(r)
  PROVE  MediaTypeOK'
<1>. USE DEF s3, history
<1>. /\ {"SaveSession", "CreateMultipart", "Complete", "Head", "Abort", "DropAborted",
         "DeleteObject", "DropRefused", "DropFinished"} \subseteq Step
     /\ {"SINGLE", "MULTIPART"} \subseteq Mode
     /\ {"DECLARED", "OTHER"} \subseteq Bytes
  BY DEF Step, Mode, Bytes
<1>1. CASE BeginCreate(r)
  BY <1>1, BeginType, CallTypes DEF BeginCreate, MediaTypeOK
<1>2. CASE BeginCompleteMultipart(r)
  BY <1>2, BeginType DEF BeginCompleteMultipart, MediaTypeOK
<1>3. CASE BeginCompleteSingle(r)
  BY <1>3, BeginType, CallTypes DEF BeginCompleteSingle, MediaTypeOK
<1>4. CASE BeginAbort(r)
  BY <1>4, BeginType, CallTypes DEF BeginAbort, MediaTypeOK
<1>5. CASE CreateMultipart(r)
  BY <1>5, MoveType DEF CreateMultipart, MediaTypeOK
<1>6. CASE SaveSession(r)
  <2>1. call[r].mode \in Mode
    BY DEF MediaTypeOK, Call
  <2>2. {0} \in SUBSET (0..PartCount)
    BY MediaAssumption
  <2>. QED  BY <1>6, <2>1, <2>2, MoveType DEF SaveSession, MediaTypeOK
<1>7. CASE CompleteMultipart(r)
  <2>1. call' \in [MediaCalls -> Call]
    BY <1>7, MoveType DEF CompleteMultipart
  <2>2. /\ multipart' \in [Uploads -> {"NONE", "OPEN", "COMPLETED", "ABORTED"}]
        /\ object' \in [Uploads -> Bytes \cup {NULL}]
    BY <1>7 DEF CompleteMultipart, MediaTypeOK
  <2>. QED  BY <1>7, <2>1, <2>2 DEF CompleteMultipart, MediaTypeOK
<1>8. CASE HeadObject(r)
  BY <1>8, MoveType DEF HeadObject, MediaTypeOK
<1>9. CASE DeleteObject(r)
  BY <1>9, MoveType DEF DeleteObject, MediaTypeOK
<1>10. CASE AbortMultipart(r)
  BY <1>10, MoveType DEF AbortMultipart, MediaTypeOK
<1>11. CASE DropSession(r)
  <2>1. call[r].upload \in Uploads
    BY <1>11 DEF DropSession, MediaTypeOK, CallsKnown
  <2>. QED  BY <1>11, <2>1, MoveType DEF DropSession, MediaTypeOK
<1>12. CASE Abandon(r)
  <2>1. At(r, "SaveSession") => call[r].upload \in Uploads
    BY DEF At, MediaTypeOK, CallsKnown
  <2>2. begun' \in 0..MaxCalls
    BY <1>12, MediaAssumption DEF Abandon, MediaTypeOK
  <2>. QED  BY <1>12, <2>1, <2>2, MoveType DEF Abandon, MediaTypeOK
<1>. QED  BY <1>1, <1>2, <1>3, <1>4, <1>5, <1>6, <1>7, <1>8, <1>9, <1>10, <1>11, <1>12 DEF Serve

LEMMA ClientType ==
  ASSUME MediaTypeOK, NEW u \in Uploads, Client(u)
  PROVE  MediaTypeOK'
<1>. USE DEF s3, history
<1>1. CASE SignParts(u)
  <2>1. Parts \subseteq 0..PartCount
    BY MediaAssumption DEF Parts
  <2>2. url' \in [Uploads -> SUBSET (0..PartCount)]
    BY <1>1, <2>1 DEF SignParts, MediaTypeOK
  <2>. QED  BY <1>1, <2>2 DEF SignParts, MediaTypeOK
<1>2. ASSUME NEW bytes \in Bytes, PutObject(u, bytes)
      PROVE  MediaTypeOK'
  BY <1>2 DEF PutObject, MediaTypeOK
<1>3. ASSUME NEW bytes \in Bytes, NEW p \in Parts, PutPart(u, p, bytes)
      PROVE  MediaTypeOK'
  BY <1>3 DEF PutPart, MediaTypeOK
<1>4. ASSUME NEW p \in 0..PartCount, UrlExpires(u, p)
      PROVE  MediaTypeOK'
  BY <1>4 DEF UrlExpires, MediaTypeOK
<1>5. CASE SessionExpires(u)
  BY <1>5 DEF SessionExpires, MediaTypeOK
<1>. QED  BY <1>1, <1>2, <1>3, <1>4, <1>5 DEF Client

-----------------------------------------------------------------------------
(* The calls. In each lemma the call of one slot changes, and the others stay *)

\* What the invariant speaks of besides the calls and the strayed sessions.
rows == <<session, multipart, object, issued, finished, reput>>

LEMMA BeginMoves ==
  ASSUME MediaTypeOK, NEW r \in MediaCalls, NEW step, NEW u, NEW mode, NEW etags,
         Begin(r, step, u, mode, etags)
  PROVE  /\ call[r].at = "Idle"
         /\ \A q \in MediaCalls :
              /\ call'[q].at = IF q = r THEN step ELSE call[q].at
              /\ call'[q].upload = IF q = r THEN u ELSE call[q].upload
              /\ call'[q].mode = IF q = r THEN mode ELSE call[q].mode
BY DEF Begin, MediaTypeOK, Idle

LEMMA GotoMoves ==
  ASSUME MediaTypeOK, NEW r \in MediaCalls, NEW step, Goto(r, step)
  PROVE  \A q \in MediaCalls :
           /\ call'[q].at = IF q = r THEN step ELSE call[q].at
           /\ call'[q].upload = call[q].upload
           /\ call'[q].mode = call[q].mode
BY DEF Goto, MediaTypeOK, Call

LEMMA ReturnMoves ==
  ASSUME MediaTypeOK, NEW r \in MediaCalls, Return(r)
  PROVE  \A q \in MediaCalls :
           /\ call'[q].at = IF q = r THEN "Idle" ELSE call[q].at
           /\ q # r => call'[q] = call[q]
BY DEF Return, MediaTypeOK, Idle

\* A call that ends without another write: what it was about stays as it is.
LEMMA ReturnKeeps ==
  ASSUME IInv, NEW r \in MediaCalls, Return(r), UNCHANGED rows,
         strayed \subseteq strayed',
         At(r, "SaveSession") => call[r].upload \in strayed'
  PROVE  UploadInv'
<1>. USE DEF IInv, UploadInv, rows
<1>1. CallsKnown' /\ UnissuedAbsent'
  BY ReturnMoves DEF CallsKnown, UnissuedAbsent
<1>2. CreatorAlone'
  BY ReturnMoves DEF CreatorAlone, Creating
<1>3. ClosedBefore' /\ LooksHold' /\ FinishedIsStored'
  BY ReturnMoves DEF ClosedBefore, LooksHold, FinishedIsStored, Closing
<1>4. OpenUploadHasSession'
  BY ReturnMoves DEF OpenUploadHasSession, At
<1>. QED  BY <1>1, <1>2, <1>3, <1>4

\* A call that only goes on to another step keeps the invariant if what the
\* step supposes is true.
LEMMA GotoKeeps ==
  ASSUME IInv, NEW r \in MediaCalls, NEW step, Goto(r, step), UNCHANGED <<rows, strayed>>,
         call[r].at \notin {"Idle"} \cup Creating, step \notin Creating,
         step \in Closing => multipart[call[r].upload] # "OPEN",
         step = "DropFinished" => object[call[r].upload] = "DECLARED",
         step \in {"DeleteObject", "DropRefused"} => object[call[r].upload] # "DECLARED"
  PROVE  UploadInv'
<1>. USE DEF IInv, UploadInv, rows
<1>1. CallsKnown' /\ UnissuedAbsent'
  BY GotoMoves DEF CallsKnown, UnissuedAbsent
<1>2. CreatorAlone'
  BY GotoMoves DEF CreatorAlone, Creating
<1>3. ClosedBefore' /\ LooksHold' /\ FinishedIsStored'
  BY GotoMoves DEF ClosedBefore, LooksHold, FinishedIsStored
<1>4. OpenUploadHasSession'
  BY GotoMoves DEF OpenUploadHasSession, At, Creating
<1>. QED  BY <1>1, <1>2, <1>3, <1>4

\* A call that finds a session, and so no creator at work.
LEMMA BeginKeeps ==
  ASSUME IInv, NEW r \in MediaCalls, NEW u \in Uploads, NEW mode, NEW etags,
         NEW step \in {"Complete", "Head", "Abort", "DropAborted"},
         Begin(r, step, u, mode, etags), UNCHANGED <<rows, strayed>>,
         session[u] # NULL, step \in Closing => session[u] = "SINGLE"
  PROVE  UploadInv'
<1>. USE DEF IInv, UploadInv, rows
<1>1. CallsKnown' /\ UnissuedAbsent'
  BY BeginMoves DEF CallsKnown, UnissuedAbsent
<1>2. CreatorAlone'
  BY BeginMoves DEF CreatorAlone, Creating
<1>3. ClosedBefore' /\ LooksHold' /\ FinishedIsStored'
  BY BeginMoves DEF ClosedBefore, LooksHold, FinishedIsStored, Closing
<1>4. OpenUploadHasSession'
  BY BeginMoves DEF OpenUploadHasSession, At
<1>. QED  BY <1>1, <1>2, <1>3, <1>4

-----------------------------------------------------------------------------
(* The invariant *)

LEMMA BeginCreateKeeps ==
  ASSUME IInv, NEW r \in MediaCalls, BeginCreate(r)
  PROVE  UploadInv'
<1>. USE DEF IInv, UploadInv, s3, history
<1>1. PICK u \in Uploads \ issued, mode \in Mode :
        /\ Begin(r, IF mode = "SINGLE" THEN "SaveSession" ELSE "CreateMultipart", u, mode, NoEtags)
        /\ issued' = issued \cup {u}
        /\ UNCHANGED <<session, s3, finished, reput, strayed>>
  BY DEF BeginCreate
<1>2. CallsKnown' /\ UnissuedAbsent'
  BY <1>1, BeginMoves DEF CallsKnown, UnissuedAbsent
<1>3. CreatorAlone'
  BY <1>1, BeginMoves DEF CreatorAlone, CallsKnown, UnissuedAbsent, Creating, Mode
<1>4. ClosedBefore' /\ LooksHold' /\ FinishedIsStored'
  BY <1>1, BeginMoves DEF ClosedBefore, LooksHold, FinishedIsStored, Closing
<1>5. OpenUploadHasSession'
  BY <1>1, BeginMoves DEF OpenUploadHasSession, At
<1>. QED  BY <1>2, <1>3, <1>4, <1>5

LEMMA CreateMultipartKeeps ==
  ASSUME IInv, NEW r \in MediaCalls, CreateMultipart(r)
  PROVE  UploadInv'
<1>. DEFINE u == call[r].upload
<1>. USE DEF IInv, UploadInv, MediaTypeOK, history
<1>1. /\ At(r, "CreateMultipart") /\ Goto(r, "SaveSession")
      /\ multipart' = [multipart EXCEPT ![u] = "OPEN"]
      /\ UNCHANGED <<session, object, issued, finished, reput, strayed>>
  BY DEF CreateMultipart
<1>2. /\ call[r].mode = "MULTIPART" /\ session[u] = NULL /\ u \in issued \ finished
      /\ \A q \in MediaCalls \ {r} : call[q].at # "Idle" => call[q].upload # u
  BY <1>1 DEF CreatorAlone, CallsKnown, Creating, At
<1>3. CallsKnown' /\ UnissuedAbsent'
  <2>1. CallsKnown'
    BY <1>1, <1>2, GotoMoves DEF CallsKnown
  <2>2. ASSUME NEW v \in Uploads \ issued PROVE multipart'[v] = multipart[v]
    BY <1>1, <1>2, <2>2
  <2>3. UnissuedAbsent'
    BY <1>1, <2>2 DEF UnissuedAbsent
  <2>. QED  BY <2>1, <2>3
<1>4. CreatorAlone'
  BY <1>1, <1>2, GotoMoves DEF CreatorAlone, Creating, At
<1>5. ClosedBefore'
  BY <1>1, <1>2, GotoMoves, MediaAssumption DEF ClosedBefore, Closing, At
<1>6. LooksHold' /\ FinishedIsStored'
  BY <1>1, GotoMoves DEF LooksHold, FinishedIsStored, At
<1>7. OpenUploadHasSession'
  BY <1>1, GotoMoves DEF OpenUploadHasSession, At
<1>. QED  BY <1>3, <1>4, <1>5, <1>6, <1>7

LEMMA SaveSessionKeeps ==
  ASSUME IInv, NEW r \in MediaCalls, SaveSession(r)
  PROVE  UploadInv'
<1>. DEFINE u == call[r].upload
<1>. USE DEF IInv, UploadInv, MediaTypeOK, history
<1>1. /\ At(r, "SaveSession") /\ Return(r)
      /\ session' = [session EXCEPT ![u] = call[r].mode]
      /\ UNCHANGED <<multipart, object, issued, finished, reput, strayed>>
  BY DEF SaveSession
<1>2. /\ call[r].mode \in {"SINGLE", "MULTIPART"} /\ u \in issued \ finished
      /\ multipart[u] = (IF call[r].mode = "MULTIPART" THEN "OPEN" ELSE "NONE")
      /\ \A q \in MediaCalls \ {r} : call[q].at # "Idle" => call[q].upload # u
  BY <1>1 DEF CreatorAlone, CallsKnown, Creating, Call, Mode, At
<1>3. CallsKnown' /\ UnissuedAbsent'
  BY <1>1, <1>2, ReturnMoves DEF CallsKnown, UnissuedAbsent, At
<1>4. CreatorAlone'
  BY <1>1, <1>2, ReturnMoves DEF CreatorAlone, Creating, At
<1>5. ClosedBefore'
  BY <1>1, <1>2, ReturnMoves DEF ClosedBefore, Closing, At
<1>6. LooksHold' /\ FinishedIsStored'
  BY <1>1, ReturnMoves DEF LooksHold, FinishedIsStored, At
<1>7. OpenUploadHasSession'
  BY <1>1, <1>2, ReturnMoves DEF OpenUploadHasSession, At
<1>. QED  BY <1>3, <1>4, <1>5, <1>6, <1>7

LEMMA CompleteMultipartKeeps ==
  ASSUME IInv, NEW r \in MediaCalls, CompleteMultipart(r)
  PROVE  UploadInv'
<1>. DEFINE u == call[r].upload
<1>. USE DEF IInv, UploadInv
<1>1. /\ At(r, "Complete") /\ call[r].at = "Complete"
      /\ UNCHANGED <<session, issued, finished, reput, strayed>>
  BY DEF CompleteMultipart, history, At
<1>2. CASE Return(r) /\ UNCHANGED <<multipart, object>>
  BY <1>1, <1>2, ReturnKeeps DEF rows, At
<1>3. CASE Goto(r, "Head") /\ multipart[u] = "COMPLETED" /\ UNCHANGED <<multipart, object>>
  BY <1>1, <1>3, GotoKeeps DEF rows, Creating
<1>4. ASSUME multipart[u] = "OPEN", Goto(r, "Head"),
             multipart' = [multipart EXCEPT ![u] = "COMPLETED"],
             NEW bytes \in Bytes, object' = [object EXCEPT ![u] = bytes]
      PROVE  UploadInv'
  <2>. USE <1>1, <1>4, GotoMoves DEF MediaTypeOK, At
  <2>0. u \in issued
    BY DEF CallsKnown
  <2>1. CallsKnown' /\ UnissuedAbsent'
    BY <2>0 DEF CallsKnown, UnissuedAbsent
  <2>2. CreatorAlone'
    BY DEF CreatorAlone, Creating
  <2>3. ClosedBefore'
    BY DEF ClosedBefore, CallsKnown, Closing
  <2>4. LooksHold' /\ FinishedIsStored'
    BY DEF ClosedBefore, LooksHold, FinishedIsStored, Closing
  <2>5. OpenUploadHasSession'
    BY DEF OpenUploadHasSession
  <2>. QED  BY <2>1, <2>2, <2>3, <2>4, <2>5
<1>. QED  BY <1>2, <1>3, <1>4 DEF CompleteMultipart, Bytes

LEMMA DeleteObjectKeeps ==
  ASSUME IInv, NEW r \in MediaCalls, DeleteObject(r)
  PROVE  UploadInv'
<1>. USE GotoMoves DEF IInv, UploadInv, MediaTypeOK, DeleteObject, history, At
<1>1. CallsKnown' /\ UnissuedAbsent'
  BY DEF CallsKnown, UnissuedAbsent
<1>2. CreatorAlone'
  BY DEF CreatorAlone, Creating
<1>3. ClosedBefore'
  BY DEF ClosedBefore, Closing
<1>4. LooksHold' /\ FinishedIsStored'
  BY MediaAssumption DEF LooksHold, FinishedIsStored
<1>5. OpenUploadHasSession'
  BY DEF OpenUploadHasSession
<1>. QED  BY <1>1, <1>2, <1>3, <1>4, <1>5

LEMMA DropSessionKeeps ==
  ASSUME IInv, NEW r \in MediaCalls, DropSession(r)
  PROVE  UploadInv'
<1>. USE ReturnMoves DEF IInv, UploadInv, MediaTypeOK, DropSession, s3, At
<1>1. CallsKnown' /\ UnissuedAbsent'
  BY DEF CallsKnown, UnissuedAbsent
<1>2. CreatorAlone'
  BY DEF CreatorAlone, Creating
<1>3. ClosedBefore'
  BY DEF ClosedBefore, Closing
<1>4. LooksHold' /\ FinishedIsStored'
  BY DEF LooksHold, FinishedIsStored
<1>5. OpenUploadHasSession'
  BY DEF OpenUploadHasSession, ClosedBefore, Closing
<1>. QED  BY <1>1, <1>2, <1>3, <1>4, <1>5

LEMMA AbortMultipartKeeps ==
  ASSUME IInv, NEW r \in MediaCalls, AbortMultipart(r)
  PROVE  UploadInv'
<1>. DEFINE u == call[r].upload
<1>1. CASE multipart[u] # "OPEN"
  BY <1>1, ReturnKeeps DEF AbortMultipart, rows, history, At
<1>2. CASE multipart[u] = "OPEN"
  <2>1. /\ multipart' = [multipart EXCEPT ![u] = "ABORTED"] /\ Goto(r, "DropAborted")
        /\ call[r].at = "Abort"
        /\ UNCHANGED <<session, object, issued, finished, reput, strayed>>
    BY <1>2 DEF AbortMultipart, history, At
  <2>. USE <1>2, <2>1, GotoMoves DEF IInv, UploadInv, MediaTypeOK, At
  <2>2. u \in issued
    BY DEF CallsKnown
  <2>3. CallsKnown' /\ UnissuedAbsent'
    <3>1. CallsKnown'
      BY <2>2 DEF CallsKnown
    <3>2. UnissuedAbsent'
      BY <2>2 DEF UnissuedAbsent
    <3>. QED  BY <3>1, <3>2
  <2>4. CreatorAlone'
    BY DEF CreatorAlone, Creating
  <2>5. ClosedBefore'
    BY DEF ClosedBefore, CallsKnown, Closing
  <2>6. LooksHold' /\ FinishedIsStored'
    BY DEF LooksHold, FinishedIsStored
  <2>7. OpenUploadHasSession'
    BY DEF OpenUploadHasSession
  <2>. QED  BY <2>3, <2>4, <2>5, <2>6, <2>7
<1>. QED  BY <1>1, <1>2

LEMMA ServeKeeps ==
  ASSUME IInv, NEW r \in MediaCalls, Serve(r)
  PROVE  UploadInv'
<1>. USE DEF rows, s3, history
<1>1. CASE BeginCompleteMultipart(r)
  BY <1>1, BeginKeeps, MediaAssumption DEF BeginCompleteMultipart, GetOwnedSession, Closing
<1>2. CASE BeginCompleteSingle(r)
  BY <1>2, BeginKeeps, MediaAssumption DEF BeginCompleteSingle, GetOwnedSession
<1>3. CASE BeginAbort(r)
  <2>1. PICK u \in Uploads, mode \in Mode :
          /\ session[u] = mode
          /\ Begin(r, IF mode = "MULTIPART" THEN "Abort" ELSE "DropAborted", u, mode, NoEtags)
    BY <1>3 DEF BeginAbort, GetOwnedSession
  <2>2. UNCHANGED <<rows, strayed>>
    BY <1>3 DEF BeginAbort
  <2>. QED  BY <2>1, <2>2, BeginKeeps, MediaAssumption DEF Mode, Closing
<1>4. CASE HeadObject(r)
  <2>1. /\ call[r].at = "Head" /\ UNCHANGED <<rows, strayed>>
        /\ \/ Return(r)
           \/ object[call[r].upload] = "DECLARED" /\ Goto(r, "DropFinished")
           \/ object[call[r].upload] # "DECLARED" /\ Goto(r, "DeleteObject")
    BY <1>4 DEF HeadObject, Verified, At
  <2>2. multipart[call[r].upload] # "OPEN"
    BY <2>1 DEF IInv, UploadInv, ClosedBefore, Closing
  <2>. QED  BY <2>1, <2>2, ReturnKeeps, GotoKeeps DEF Creating, At
<1>5. CASE Abandon(r)
  BY <1>5, ReturnKeeps DEF Abandon
<1>. QED  BY <1>1, <1>2, <1>3, <1>4, <1>5, BeginCreateKeeps, CreateMultipartKeeps,
             SaveSessionKeeps, CompleteMultipartKeeps, DeleteObjectKeeps, DropSessionKeeps,
             AbortMultipartKeeps DEF Serve

LEMMA ClientKeeps ==
  ASSUME IInv, NEW u \in Uploads, Client(u)
  PROVE  UploadInv'
<1>. USE DEF IInv, UploadInv, CallsKnown, UnissuedAbsent, CreatorAlone, ClosedBefore, LooksHold,
             OpenUploadHasSession, FinishedIsStored, At
<1>1. CASE UNCHANGED <<rows, call, strayed>>
  BY <1>1 DEF rows
<1>2. ASSUME NEW bytes \in Bytes, PutObject(u, bytes)
      PROVE  UploadInv'
  BY <1>2 DEF PutObject, Seen, MediaTypeOK
<1>3. CASE SessionExpires(u)
  BY <1>3, MediaAssumption DEF SessionExpires, MediaTypeOK, s3
<1>. QED  BY <1>1, <1>2, <1>3 DEF Client, SignParts, PutPart, UrlExpires, rows, s3, history

LEMMA InitInv == MediaInit => IInv
<1>. SUFFICES ASSUME MediaInit PROVE UploadInv
  BY InitType DEF IInv
<1>. QED  BY MediaAssumption DEF MediaInit, Idle, UploadInv, CallsKnown, UnissuedAbsent, CreatorAlone,
                  ClosedBefore, LooksHold, OpenUploadHasSession, FinishedIsStored, Creating, Closing

LEMMA NextInv == IInv /\ [MediaNext]_mediaVars => IInv'
<1>. SUFFICES ASSUME IInv, [MediaNext]_mediaVars PROVE IInv'
  OBVIOUS
<1>1. ASSUME NEW r \in MediaCalls, Serve(r) PROVE IInv'
  BY <1>1, ServeType, ServeKeeps DEF IInv, UploadInv
<1>2. ASSUME NEW u \in Uploads, Client(u) PROVE IInv'
  BY <1>2, ClientType, ClientKeeps DEF IInv
<1>3. CASE UNCHANGED mediaVars
  BY <1>3 DEF mediaVars, s3, history, IInv, MediaTypeOK, UploadInv, CallsKnown, UnissuedAbsent, CreatorAlone,
              ClosedBefore, LooksHold, OpenUploadHasSession, FinishedIsStored, At
<1>. QED  BY <1>1, <1>2, <1>3 DEF MediaNext

\* Sessions, uploads, objects and calls stay of their types, for any number of
\* uploads, parts and calls at a time.
THEOREM TypeCorrect == MediaSpec => []MediaTypeOK
<1>1. IInv => MediaTypeOK
  BY DEF IInv
<1>. QED  BY <1>1, InitInv, NextInv, PTL DEF MediaSpec

\* No multipart upload is left open at S3 without its session in Redis or a call
\* about to save it, but for an expired or a never saved session (createUpload,
\* completeMultipart, abort, verifyAndFinish).
THEOREM OpenUploadsReachable == MediaSpec => []OpenUploadHasSession
<1>1. IInv => OpenUploadHasSession
  BY DEF IInv, UploadInv
<1>. QED  BY <1>1, InitInv, NextInv, PTL DEF MediaSpec

\* A completion answers with the key of an object it has verified, and no other
\* call takes the object away again, unless the client puts it again behind a
\* completion that has looked at it (verifyAndFinish).
THEOREM FinishedStaysStored == MediaSpec => []FinishedIsStored
<1>1. IInv => FinishedIsStored
  BY DEF IInv, UploadInv
<1>. QED  BY <1>1, InitInv, NextInv, PTL DEF MediaSpec

\* What is proved of the uploads holds of the listings they are composed into:
\* a step of a product is none of theirs.
THEOREM UploadsOfListings == ListingSpec => MediaSpec
<1>1. ListingInit => MediaInit
  BY DEF ListingInit
<1>2. [ListingNext]_listingVars => [MediaNext]_mediaVars
  BY DEF ListingNext, listingVars, AtProducts
<1>. QED  BY <1>1, <1>2, PTL DEF ListingSpec, MediaSpec
=============================================================================
