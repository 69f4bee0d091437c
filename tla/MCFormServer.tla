---------------------------- MODULE MCFormServer ----------------------------
(***************************************************************************)
(* The set-up of every program, and behind that of web_server/server.c its *)
(* service: FormServer takes over when SetUp has come to the loop of       *)
(* main(), and when accept() fails, SetUp undoes what it has done.         *)
(***************************************************************************)
EXTENDS FormServer

CONSTANTS MaxAddresses, c1, c2

\* A name that resolves at all resolves to an address.
ASSUME SetUpAssumption == MaxAddresses \in Nat \ {0}

VARIABLES prog, windows, debug, entry, addresses, held, broken, released,
          misused, state

setUpVars == <<prog, windows, debug, entry, addresses, held, broken, released,
               misused, state>>

Up == INSTANCE SetUp WITH pc <- entry

\* main() of server.c is in its loop.
InLoop == prog = "server" /\ state = "up" /\ Up!Here.works

SetUpInit ==
    /\ Init /\ Up!Init
    /\ prog # "server" => /\ asks = [c \in Clients |-> "page"]
                          /\ buffer.from = CHOOSE c \in Clients : TRUE

SetUpNext ==
    \/ ~InLoop /\ Up!Next /\ UNCHANGED vars
    \/ /\ InLoop /\ ~Stopped
       /\ Server \/ \E c \in Clients : Client(c)
       /\ UNCHANGED setUpVars
    \/ InLoop /\ AcceptFails /\ Up!FailAndExit

SetUpSpec ==
    /\ SetUpInit /\ [][SetUpNext]_<<vars, setUpVars>>
    /\ WF_vars(InLoop /\ ~Stopped /\ Server)

-----------------------------------------------------------------------------
(***************************************************************************)
(* The types of the two modules; and clients are there only when the       *)
(* server has come to its loop with everything it needs for it.            *)
(***************************************************************************)
TypesOK == /\ TypeOK /\ Up!TypeOK
           /\ \A c \in Clients : conn[c] # "none" => prog = "server" /\ broken = {}

UsesWhatItHolds == Up!UsesWhatItHolds
UndoIsComplete == Up!UndoIsComplete
=============================================================================
