----------------------------- MODULE MCClients -----------------------------
(* The clients for TLC: one of them runs, the others stay in one of their  *)
(* initial states.                                                         *)
EXTENDS MetaClient

CONSTANTS Kinds, BUF, MaxRecord, MaxSent, MaxStream, MaxChunk,
          Flags, Statuses, Enough, Burst, MaxSeen

TheSongs == << [artist |-> <<"a", "b">>, title |-> <<"t", "u">>],
               [artist |-> << >>, title |-> << >>] >>

VARIABLES
    client,     \* the client that runs
    kind, sent, open, records, pending, printed, taken, eventPc, broke, big,
    uvPc, stream, data, message_start, messages,
    opts, httpPc, httpInterrupted, bad, status, long_poll, info, wsi,
    test, wsInterrupted, rx_seen, client_wsi, wsPc, inCall

Event == INSTANCE EventClient WITH shown <- printed, pc <- eventPc
Uv    == INSTANCE UvClient WITH pc <- uvPc
Http  == INSTANCE LwsHttpClient WITH pc <- httpPc, interrupted <- httpInterrupted
Ws    == INSTANCE LwsWsClient WITH pc <- wsPc, interrupted <- wsInterrupted

ASSUME ClientsAssumption ==
    Event!EventAssumption /\ Uv!UvAssumption /\ Http!LwsAssumption /\ Ws!WsAssumption

eventVars == <<kind, sent, open, records, pending, printed, taken, eventPc, broke, big>>
uvVars    == <<uvPc, stream, data, message_start, messages>>
httpVars  == <<opts, httpPc, httpInterrupted, bad, status, long_poll, info, wsi>>
wsVars    == <<test, wsInterrupted, rx_seen, client_wsi, wsPc, inCall>>
allVars   == <<vars, client, eventVars, uvVars, httpVars, wsVars>>

ClientsInit ==
    /\ client \in {"ssl_read", "event", "uv", "lws http", "lws ws"}
    /\ Init /\ Event!Init /\ Uv!Init /\ Http!Init /\ Ws!Init
    /\ client # "event" => kind = CHOOSE k \in Kinds : TRUE
    /\ client # "lws http" => opts = {}
    /\ client # "lws ws" => ~test

ClientsNext ==
    /\ UNCHANGED client
    /\ IF client = "ssl_read" THEN Next ELSE UNCHANGED vars
    /\ IF client = "event" THEN Event!Next ELSE UNCHANGED eventVars
    /\ IF client = "uv" THEN Uv!Next ELSE UNCHANGED uvVars
    /\ IF client = "lws http" THEN Http!Next ELSE UNCHANGED httpVars
    /\ IF client = "lws ws" THEN Ws!Next ELSE UNCHANGED wsVars

\* The client that runs, under the fairness of its own specification.
ClientsSpec ==
    /\ ClientsInit /\ [][ClientsNext]_allVars
    /\ WF_vars(client = "ssl_read" /\ Thread)
    /\ WF_vars(client = "ssl_read" /\ Server)
    /\ WF_eventVars(client = "event" /\ Event!Program)
    /\ WF_httpVars(client = "lws http" /\ Http!Main)
    /\ WF_httpVars(client = "lws http" /\ httpPc = "waiting" /\ Http!Service)
    /\ WF_wsVars(client = "lws ws" /\ Ws!Main)
    /\ WF_wsVars(client = "lws ws" /\ wsPc = "waiting" /\ Ws!Service)

MetaEventuallyShown == client = "ssl_read" => EventuallyShown

NothingLeftBehind == Event!NothingLeftBehind
EndsBehindTheLast == Event!EndsBehindTheLast
OneMessageForEachLine == Uv!OneMessageForEachLine
ExitTellsStatus == Http!ExitTellsStatus
EndsWhenAsked == Http!EndsWhenAsked
EndsInTheEnd == Ws!EndsInTheEnd

\* The types of the five clients.
TypesOK == TypeOK /\ Event!TypeOK /\ Uv!TypeOK /\ Http!TypeOK /\ Ws!TypeOK
=============================================================================
