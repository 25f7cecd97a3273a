--------------------------------- MODULE Serve ---------------------------------
(***************************************************************************)
(* hwall-cli serve, crates/hwall-cli/src/serve.rs: a thread collects       *)
(* snapshots into a cache behind a lock, and the main thread answers one   *)
(* HTTP connection after the other from it.  A snapshot is its number; a   *)
(* client may send what it likes, slowly, close the connection or fall     *)
(* silent.  A lock is held for one step.                                   *)
(***************************************************************************)
EXTENDS Naturals

CONSTANTS
    LineLimit,     \* MAX_REQUEST_LINE_BYTES
    Refreshes,     \* bound of the collections
    RefreshMayEnd  \* the collecting thread may panic

ASSUME ServeAssumption ==
    LineLimit \in Nat \ {0} /\ Refreshes \in Nat /\ RefreshMayEnd \in BOOLEAN

(* A request line: how many parts it has, whether the first is GET, the    *)
(* second is the root and the third starts with HTTP/1.                    *)
Line == [parts : {2, 3, 4}, get : BOOLEAN, root : BOOLEAN, http1 : BOOLEAN]

Unread == [parts |-> 2, get |-> FALSE, root |-> FALSE, http1 |-> FALSE]

Statuses == {"200", "404", "405", "400"}

VARIABLES
    refresher,  \* what the collecting thread does
    captured,   \* the last snapshot it has collected
    cache,      \* the snapshot in the cache
    server,     \* what the main thread does
    line,       \* what came before the first newline, once it is read
    received,   \* bytes of the request that have been read
    response    \* the last response, and the newest snapshot served before it

serveVars == <<refresher, captured, cache, server, line, received, response>>

ServeTypeOK ==
    /\ refresher \in {"sleeping", "collected", "ended"}
    /\ captured \in 0 .. Refreshes /\ cache \in 0 .. captured
    /\ server \in {"accepting", "reading", "line", "no line"}
    /\ line \in Line
    /\ received \in 0 .. LineLimit
    /\ response \in [status : Statuses, body : 0 .. Refreshes, newest : 0 .. Refreshes]

connectionVars == <<server, line, received, response>>
refreshVars == <<refresher, captured, cache>>

-----------------------------------------------------------------------------
(* refresh_snapshots *)

CollectSnapshot ==
    /\ refresher = "sleeping" /\ captured < Refreshes
    /\ \/ refresher' = "collected" /\ captured' = captured + 1
       \/ RefreshMayEnd /\ refresher' = "ended" /\ UNCHANGED captured
    /\ UNCHANGED <<cache, connectionVars>>

(* A mutant: what cannot be serialized is cached as nothing. *)
PublishOrEmpty ==
    /\ refresher = "collected"
    /\ refresher' = "sleeping"
    /\ cache' \in {captured, 0}
    /\ UNCHANGED <<captured, connectionVars>>

(* A snapshot that cannot be serialized leaves the cache as it is. *)
PublishSnapshot ==
    /\ refresher = "collected"
    /\ refresher' = "sleeping"
    /\ cache' \in {captured, cache}
    /\ UNCHANGED <<captured, connectionVars>>

-----------------------------------------------------------------------------
(* handle_connection *)

AcceptConnection ==
    /\ server = "accepting"
    /\ server' = "reading"
    /\ received' = 0
    /\ UNCHANGED <<refreshVars, line, response>>

(* read_request_line: some more bytes, the newline perhaps among them, as  *)
(* long as the buffer has room.                                            *)
ReadBytes ==
    /\ server = "reading"
    /\ \E n \in 1 .. LineLimit - received :
          /\ received' = received + n
          /\ \/ server' = "line" /\ line' \in Line
             \/ /\ server' = IF received + n = LineLimit THEN "no line" ELSE "reading"
                /\ UNCHANGED line
    /\ UNCHANGED <<refreshVars, response>>

(* The client has closed its side. *)
ReadEndOfFile ==
    /\ server = "reading"
    /\ server' = "no line"
    /\ UNCHANGED <<refreshVars, line, received, response>>

(* A read, or the write of a response, fails or takes CLIENT_TIMEOUT. *)
ConnectionFails ==
    /\ server # "accepting"
    /\ server' = "accepting" /\ line' = Unread
    /\ UNCHANGED <<refreshVars, received, response>>

(* classify_request *)
Classify(l) ==
    IF l.parts # 3 \/ ~l.http1 THEN "400"
    ELSE IF ~l.get THEN "405"
    ELSE IF ~l.root THEN "404"
    ELSE "200"

Respond ==
    /\ server \in {"line", "no line"}
    /\ server' = "accepting" /\ line' = Unread
    /\ LET status == IF server = "line" THEN Classify(line) ELSE "400"
       IN response' =
            IF status = "200"
            THEN [status |-> status, body |-> cache,
                  newest |-> IF response.body > response.newest THEN response.body
                             ELSE response.newest]
            ELSE [response EXCEPT !.status = status]
    /\ UNCHANGED <<refreshVars, received>>

-----------------------------------------------------------------------------
ServeInit ==
    /\ refresher = "sleeping" /\ captured = 0 /\ cache = 0
    /\ server = "accepting" /\ received = 0
    /\ line = Unread
    /\ response = [status |-> "400", body |-> 0, newest |-> 0]

Refresher == CollectSnapshot \/ PublishSnapshot
Connection == ReadBytes \/ ReadEndOfFile \/ ConnectionFails \/ Respond

ServeNext == Refresher \/ AcceptConnection \/ Connection

(* Both threads go on; clients need not come, nor send what they began. *)
ServeSpec ==
    /\ ServeInit /\ [][ServeNext]_serveVars
    /\ WF_serveVars(Refresher) /\ WF_serveVars(Connection)

-----------------------------------------------------------------------------
(* Properties *)

(* The snapshot is given to those only who ask for it in a whole line, and *)
(* no client is ever given an older one than a client before it, although  *)
(* the thread that collects works, fails and dies on its own.              *)
ServedInOrder ==
    [][ response' # response /\ response'.status = "200" =>
          /\ server = "line" /\ line.parts = 3 /\ line.get /\ line.root /\ line.http1
          /\ response'.body >= response'.newest ]_serveVars

(* No client keeps the server from the next one, however it drips bytes,   *)
(* and the snapshots are renewed while the collecting thread lives.        *)
ServeGoesOn ==
    /\ []<>(server = "accepting")
    /\ <>(captured = Refreshes \/ refresher = "ended")
=============================================================================
