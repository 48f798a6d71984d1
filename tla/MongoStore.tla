----------------------------- MODULE MongoStore -----------------------------
(***************************************************************************)
(* pkg/mongo: goroutines that share one helper write to a collection and   *)
(* to a GridFS bucket.  A request on the collection has a time-out of five *)
(* or ten seconds, and the server may carry out later what its caller has  *)
(* given up.  A document is its key; requests are lists of single writes,  *)
(* which the server makes one by one.                                      *)
(***************************************************************************)
EXTENDS Naturals, Sequences, SequencesExt

CONSTANTS
    Users,      \* goroutines that share the helper
    Docs,       \* keys of documents
    Parts,      \* how many batches of chunks a file takes
    MaxOps,     \* bound: operations begun
    MaxTrouble  \* bound: requests that fail or time out

VARIABLES
    client,     \* "unset", "open" or "closed"
    docs,       \* the documents in the collection
    files,      \* the files in the bucket: [by, parts]
    late,       \* lists of writes whose callers gave up
    doing,      \* each goroutine: its operation, or "none"
    todo,       \* the writes the server has yet to make for it
    parts,      \* the parts of the upload that are stored
    result,     \* of its latest operation: "none", "nil", "error"
    asked,      \* history: its latest operation and the writes of it
    failed,     \* history: goroutines one of whose requests failed since
    calm,       \* history: goroutines since when only they have written
    ops, trouble

user == <<doing, todo, parts, result, asked, failed>>
vars == <<client, docs, files, late, user, calm, ops, trouble>>

Init ==
    /\ client = "unset"
    /\ docs = {}
    /\ files = {}
    /\ late = {}
    /\ doing = [u \in Users |-> "none"]
    /\ todo = [u \in Users |-> <<>>]
    /\ parts = [u \in Users |-> 0]
    /\ result = [u \in Users |-> "none"]
    /\ asked = [u \in Users |-> [op |-> "none", writes |-> <<>>]]
    /\ failed = {}
    /\ calm = {}
    /\ ops = 0
    /\ trouble = 0

-----------------------------------------------------------------------------

Put(d) == <<"put", d>>      \* insert; a duplicate key is an error
Set(d) == <<"set", d>>      \* update with upsert
Touch(d) == <<"touch", d>>  \* update of what matches
Drop(d) == <<"drop", d>>    \* delete what matches

Refused(w) == w[1] = "put" /\ w[2] \in docs

Made(w) ==
    CASE w[1] \in {"put", "set"} -> docs \union {w[2]}
      [] w[1] = "drop" -> docs \ {w[2]}
      [] OTHER -> docs

\* SetMongoClient: Connect dials later, so that it hardly ever fails.
SetMongoClient ==
    /\ client = "unset"
    /\ client' = "open"
    /\ UNCHANGED <<docs, files, late, user, calm, ops, trouble>>

\* Close waits for the requests in flight.
Close ==
    /\ client = "open"
    /\ \A u \in Users : doing[u] = "none"
    /\ client' = "closed"
    /\ UNCHANGED <<docs, files, late, user, calm, ops, trouble>>

Trouble(u) ==
    /\ trouble < MaxTrouble
    /\ trouble' = trouble + 1
    /\ failed' = failed \union {u}

Begin(u, o, writes) ==
    /\ client # "unset"
    /\ doing[u] = "none"
    /\ ops < MaxOps
    /\ ops' = ops + 1
    /\ asked' = [asked EXCEPT ![u] = [op |-> o, writes |-> writes]]
    /\ calm' = calm \union {u}

Return(u, r) ==
    /\ doing' = [doing EXCEPT ![u] = "none"]
    /\ todo' = [todo EXCEPT ![u] = <<>>]
    /\ result' = [result EXCEPT ![u] = r]

\* NewCollCli refuses an empty name; on a closed client the request fails.
NewCollCli(u, o, writes) ==
    /\ Begin(u, o, writes)
    /\ \/ /\ client = "open"
          /\ doing' = [doing EXCEPT ![u] = o]
          /\ todo' = [todo EXCEPT ![u] = writes]
          /\ result' = [result EXCEPT ![u] = "none"]
          /\ failed' = failed \ {u}
       \/ /\ Return(u, IF o = "Get" THEN "nil" ELSE "error")
          /\ failed' = failed \union {u}
       \/ Return(u, "error") /\ failed' = failed \ {u}
    /\ UNCHANGED <<client, docs, files, late, parts, trouble>>

Insert(u, d) == NewCollCli(u, "Insert", <<Put(d)>>)
InsertMany(u, d, e) == NewCollCli(u, "InsertMany", <<Put(d), Put(e)>>)
UpdateOne(u, w) == NewCollCli(u, "UpdateOne", <<w>>)
UpdateMany(u, d, e) == NewCollCli(u, "UpdateMany", <<Touch(d), Touch(e)>>)
DeleteOne(u, d) == NewCollCli(u, "DeleteOne", <<Drop(d)>>)
DeleteAll(u, d, e) == NewCollCli(u, "DeleteAll", <<Drop(d), Drop(e)>>)
BulkWrite(u, d, e) == NewCollCli(u, "BulkWrite", <<Drop(d), Put(e)>>)
Get(u) == NewCollCli(u, "Get", <<>>)
GetCount(u) == NewCollCli(u, "GetCount", <<>>)
GetQueryCursor(u) == NewCollCli(u, "GetQueryCursor", <<>>)
Aggregate(u) == NewCollCli(u, "Aggregate", <<>>)
GetAllCollections(u) == NewCollCli(u, "GetAllCollections", <<>>)
CreateExpirationIndex(u) == NewCollCli(u, "CreateExpirationIndex", <<>>)

\* The server makes the next write, or stops at one it refuses.
Serve(u) ==
    /\ doing[u] \notin {"none", "UploadFile"}
    /\ todo[u] # <<>>
    /\ LET w == Head(todo[u]) IN
        \/ /\ ~Refused(w)
           /\ docs' = Made(w)
           /\ calm' = calm \intersect {u}
           /\ todo' = [todo EXCEPT ![u] = Tail(@)]
           /\ UNCHANGED <<doing, result, failed>>
        \/ /\ Refused(w)
           /\ Return(u, "error")
           /\ failed' = failed \union {u}
           /\ UNCHANGED <<docs, calm>>
    /\ UNCHANGED <<client, files, late, parts, asked, ops, trouble>>

Answer(u) ==
    /\ doing[u] \notin {"none", "UploadFile"}
    /\ todo[u] = <<>>
    /\ Return(u, "nil")
    /\ UNCHANGED <<client, docs, files, late, parts, asked, failed, calm, ops, trouble>>

\* Faulty variant: the error of the driver is dropped.
TimeOutDropped(u) ==
    /\ doing[u] \notin {"none", "UploadFile"}
    /\ Trouble(u)
    /\ late' \in {late, late \union {todo[u]}}
    /\ Return(u, "nil")
    /\ UNCHANGED <<client, docs, files, parts, asked, calm, ops>>

\* The caller gives up, with an error; the server does, or goes on.  Get puts
\* the error into its SingleResult and returns nil.
TimeOut(u) ==
    /\ doing[u] \notin {"none", "UploadFile"}
    /\ Trouble(u)
    /\ late' \in {late, late \union {todo[u]}}
    /\ Return(u, IF doing[u] = "Get" THEN "nil" ELSE "error")
    /\ UNCHANGED <<client, docs, files, parts, asked, calm, ops>>

ServeLate(s) ==
    /\ s \in late
    /\ IF s = <<>> \/ Refused(Head(s))
       THEN late' = late \ {s} /\ UNCHANGED <<docs, calm>>
       ELSE late' = (late \ {s}) \union {Tail(s)} /\ docs' = Made(Head(s)) /\ calm' = {}
    /\ UNCHANGED <<client, files, user, ops, trouble>>

-----------------------------------------------------------------------------

\* UploadFile: NewGridFSCli has no check of the name, and no failure of the
\* stream is returned, neither of opening it ...
UploadFile(u) ==
    /\ Begin(u, "UploadFile", <<>>)
    /\ parts' = [parts EXCEPT ![u] = 0]
    /\ \/ /\ client = "open"
          /\ doing' = [doing EXCEPT ![u] = "UploadFile"]
          /\ result' = [result EXCEPT ![u] = "none"]
          /\ failed' = failed \ {u}
          /\ UNCHANGED todo
       \/ Return(u, "nil") /\ failed' = failed \union {u}
    /\ UNCHANGED <<client, docs, files, late, trouble>>

File(u, n) == [by |-> u, parts |-> n]

\* ... nor of io.Copy, part by part, nor of the deferred Close, which stores
\* what has been copied until then as a file of its own right.
Copy(u) ==
    /\ doing[u] = "UploadFile"
    /\ \/ /\ parts[u] < Parts
          /\ parts' = [parts EXCEPT ![u] = @ + 1]
          /\ UNCHANGED <<files, doing, todo, result, failed, trouble>>
       \/ /\ parts[u] = Parts
          /\ files' = files \union {File(u, Parts)}
          /\ Return(u, "nil")
          /\ UNCHANGED <<parts, failed, trouble>>
       \/ /\ Trouble(u)
          /\ files' \in {files, files \union {File(u, parts[u])}}
          /\ Return(u, "nil")
          /\ UNCHANGED parts
    /\ UNCHANGED <<client, docs, late, asked, calm, ops>>

\* DeleteFile; FindFile and DownloadFile show a file as it is stored.
DeleteFile(u, f) ==
    /\ doing[u] = "none"
    /\ client # "unset"
    /\ ops < MaxOps
    /\ ops' = ops + 1
    /\ asked' = [asked EXCEPT ![u] = [op |-> "DeleteFile", writes |-> <<>>]]
    /\ calm' = {u}
    /\ \/ /\ client = "open"
          /\ files' = files \ {f}
          /\ failed' = failed \ {u}
          /\ Return(u, "nil")
          /\ UNCHANGED trouble
       \/ /\ client = "open"
          /\ Trouble(u)
          /\ files' \in {files, files \ {f}}
          /\ Return(u, "error")
       \/ /\ client = "closed"
          /\ failed' = failed \union {u}
          /\ Return(u, "error")
          /\ UNCHANGED <<files, trouble>>
    /\ UNCHANGED <<client, docs, late, parts>>

-----------------------------------------------------------------------------

Operation(u) ==
    \/ \E d \in Docs : Insert(u, d) \/ DeleteOne(u, d)
    \/ \E d \in Docs : UpdateOne(u, Set(d)) \/ UpdateOne(u, Touch(d))
    \/ \E d, e \in Docs : d # e /\
        (InsertMany(u, d, e) \/ UpdateMany(u, d, e) \/ DeleteAll(u, d, e) \/ BulkWrite(u, d, e))
    \/ Get(u) \/ GetCount(u) \/ GetQueryCursor(u) \/ Aggregate(u)
    \/ GetAllCollections(u) \/ CreateExpirationIndex(u)
    \/ UploadFile(u)
    \/ \E f \in files : DeleteFile(u, f)

Next ==
    \/ SetMongoClient
    \/ Close
    \/ \E u \in Users : Operation(u) \/ Serve(u) \/ Answer(u) \/ TimeOut(u) \/ Copy(u)
    \/ \E s \in late : ServeLate(s)

Spec == Init /\ [][Next]_vars

-----------------------------------------------------------------------------

Writes == {"put", "set", "touch", "drop"} \X Docs

OpNames ==
    {"none", "Insert", "InsertMany", "UpdateOne", "UpdateMany", "DeleteOne", "DeleteAll",
     "BulkWrite", "Get", "GetCount", "GetQueryCursor", "Aggregate", "GetAllCollections",
     "CreateExpirationIndex", "UploadFile", "DeleteFile"}

\* The variables hold nothing but what the operations put there.
TypeOK ==
    /\ client \in {"unset", "open", "closed"}
    /\ docs \subseteq Docs
    /\ files \subseteq [by : Users, parts : 0..Parts]
    /\ late \subseteq Seq(Writes)
    /\ doing \in [Users -> OpNames]
    /\ todo \in [Users -> Seq(Writes)]
    /\ asked \in [Users -> [op : OpNames, writes : Seq(Writes)]]
    /\ parts \in [Users -> 0..Parts]
    /\ result \in [Users -> {"none", "nil", "error"}]
    /\ failed \subseteq Users
    /\ calm \subseteq Users

\* Of the first n writes of s, the last one to a document decides whether it is
\* among D.
Settled(s, n, D) ==
    \A i \in 1..n :
        (\A j \in i + 1..n : s[j][2] # s[i][2]) =>
            /\ s[i][1] \in {"put", "set"} => s[i][2] \in D
            /\ s[i][1] = "drop" => s[i][2] \notin D

\* A nil error hides a failed request in two operations only: Get leaves the
\* error in the result it returns, and UploadFile drops it.  Otherwise nil means
\* done: unless another goroutine, or a write that some caller had given up, came
\* after it, the documents are there or gone as asked, the last write to a
\* document deciding, and an uploaded file is there entirely.
NilMeansDone ==
    \A u \in Users : result[u] = "nil" =>
        /\ u \in failed => asked[u].op \in {"Get", "UploadFile"}
        /\ u \in calm \ failed =>
            /\ Settled(asked[u].writes, Len(asked[u].writes), docs)
            /\ asked[u].op = "UploadFile" => File(u, Parts) \in files
-----------------------------------------------------------------------------

\* t is what follows the first n writes of s.
Rest(t, s, n) ==
    /\ Len(t) = Len(s) - n
    /\ \A i \in 1..Len(t) : t[i] = s[n + i]
=============================================================================
