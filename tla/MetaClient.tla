----------------------------- MODULE MetaClient -----------------------------
(***************************************************************************)
(* The metadata client of simple/ssl_read.c behind its handshake: a thread *)
(* that asks a server over one TLS connection what is playing, once a      *)
(* second, and takes the answers apart.  It sends one request before its   *)
(* loop and one in each round, and takes what one SSL_read() returns for   *)
(* an answer; the server answers in order, in as many TLS records as it    *)
(* likes, and may put two answers into one.                                *)
(***************************************************************************)
EXTENDS Integers, Sequences

CONSTANTS
    Letters,    \* the characters of artists and titles
    Songs,      \* what is played, in order: artist and title
    MaxPieces,  \* bound: the records of one answer
    REQCAP,     \* requests the connection holds before SSL_write() waits
    ANSCAP      \* records it holds before the server waits

ASSUME MetaAssumption ==
    /\ Songs \in Seq([artist : Seq(Letters), title : Seq(Letters)]) /\ Songs # << >>
    /\ MaxPieces \in Nat \ {0} /\ REQCAP \in Nat \ {0} /\ ANSCAP \in Nat \ {0}

VARIABLES
    now,        \* the song that is playing
    requests,   \* how many requests are on their way
    left,       \* records of the current answer the server still has to send
    current,    \* the song of that answer
    inbox,      \* the records on their way back: song, part, answers ended
    pc,         \* where the thread is
    shown,      \* the last song printed, or 0
    buffer,     \* read_response()'s array from the key on; empty when the key
                \* was not found, or the call is over and the array with it
    metadata,   \* where in that array the call has found artist and title
    lag,        \* history: requests sent whose answer has not been read
    before,     \* history: the song when the last but one request was sent,
    last,       \*          and when the last one was
    oneEach,    \* history: every answer has been one record so far
    missed      \* history: the search has missed the key in a whole answer

server == <<now, requests, left, current, inbox>>
vars == <<now, requests, left, current, inbox, pc, shown, buffer, metadata,
          lag, before, last, oneEach, missed>>

Strings == [data : Nat, len : Nat]
Nothing == [artist |-> [data |-> 0, len |-> 0], title |-> [data |-> 0, len |-> 0]]

Init == /\ now = 1
        /\ requests = 0 /\ left = 0 /\ current = 1 /\ inbox = << >>
        /\ pc = "start"
        /\ shown = 0
        /\ buffer = << >>
        /\ metadata = Nothing
        /\ lag = 0 /\ before = 1 /\ last = 1
        /\ oneEach = TRUE
        /\ missed = FALSE

-----------------------------------------------------------------------------
(* The text of an answer, from the key on, and what read_response() makes  *)
(* of it.  The quotes are q, the rest of the keys k.                       *)

Chars == Letters \cup {"k", "q", ":", ","}

Text(song) == <<"k", "q", ":", "q">> \o Songs[song].artist
                \o <<"q", ",", "q", "k", "q", ":", "q">> \o Songs[song].title
                \o <<"q">>

\* The first place of c from place i on: while (*p++ != c).
FirstFrom(text, c, i) ==
    CHOOSE k \in i .. Len(text) :
        text[k] = c /\ \A h \in i .. k - 1 : text[h] # c

\* (mutant) a key whose values are swapped
ParseSwapped(text) ==
    LET colon1 == FirstFrom(text, ":", 1)
        quote1 == FirstFrom(text, "q", colon1 + 2)
        colon2 == FirstFrom(text, ":", quote1 - 1)
        quote2 == FirstFrom(text, "q", colon2 + 2)
    IN  [artist |-> [data |-> colon2 + 2, len |-> quote2 - colon2 - 2],
         title  |-> [data |-> colon1 + 2, len |-> quote1 - colon1 - 2]]

\* (mutant) the length without the character the NUL replaces
ParseShort(text) ==
    LET colon1 == FirstFrom(text, ":", 1)
        quote1 == FirstFrom(text, "q", colon1 + 2)
        colon2 == FirstFrom(text, ":", quote1 - 1)
        quote2 == FirstFrom(text, "q", colon2 + 2)
    IN  [artist |-> [data |-> colon1 + 2, len |-> quote1 - colon1 - 2],
         title  |-> [data |-> colon2 + 2, len |-> quote2 - colon2 - 3]]

\* Where the values are.  The search for the second colon starts at the last
\* character of the artist.
Parse(text) ==
    LET colon1 == FirstFrom(text, ":", 1)
        quote1 == FirstFrom(text, "q", colon1 + 2)
        colon2 == FirstFrom(text, ":", quote1 - 1)
        quote2 == FirstFrom(text, "q", colon2 + 2)
    IN  [artist |-> [data |-> colon1 + 2, len |-> quote1 - colon1 - 2],
         title  |-> [data |-> colon2 + 2, len |-> quote2 - colon2 - 2]]

\* The NULs: one in place of the quote behind the artist, one in place of the
\* last character of the title (of the quote before it, if the title is empty).
Marked(text) ==
    LET found == Parse(text)
        ends == {found.artist.data + found.artist.len,
                 found.title.data + found.title.len - 1}
    IN  [j \in 1 .. Len(text) |-> IF j \in ends THEN "nul" ELSE text[j]]

\* Both, for the answer about each song.
Found == [song \in DOMAIN Songs |-> Parse(Text(song))]
Array == [song \in DOMAIN Songs |-> Marked(Text(song))]

-----------------------------------------------------------------------------
(* The server *)

NextSong ==
    /\ now < Len(Songs)
    /\ now' = now + 1
    /\ UNCHANGED <<requests, left, current, inbox, pc, shown, buffer, metadata,
                   lag, before, last, oneEach, missed>>

\* It takes up a request and answers with what is playing now.
TakeRequest ==
    /\ left = 0 /\ requests > 0
    /\ requests' = requests - 1
    /\ current' = now
    /\ left' \in 1 .. MaxPieces
    /\ oneEach' = (oneEach /\ left' = 1)
    /\ UNCHANGED <<now, inbox, pc, shown, buffer, metadata, lag, before, last, missed>>

SendRecord ==
    /\ left > 0 /\ Len(inbox) < ANSCAP
    /\ inbox' = Append(inbox, [song |-> current, ends |-> IF left = 1 THEN 1 ELSE 0])
    /\ left' = left - 1
    /\ UNCHANGED <<now, requests, current, pc, shown, buffer, metadata,
                   lag, before, last, oneEach, missed>>

\* The last record of an answer also holds the whole of the next.
SendTwo ==
    /\ left = 1 /\ requests > 0 /\ Len(inbox) < ANSCAP
    /\ inbox' = Append(inbox, [song |-> current, ends |-> 2])
    /\ left' = 0
    /\ requests' = requests - 1
    /\ oneEach' = FALSE
    /\ UNCHANGED <<now, current, pc, shown, buffer, metadata, lag, before, last, missed>>

Server == TakeRequest \/ SendRecord \/ SendTwo

-----------------------------------------------------------------------------
(* The thread *)

\* thread_create(); when it fails the program goes on spinning.
Start ==
    /\ pc = "start"
    /\ pc' \in {"first", "spin"}
    /\ UNCHANGED <<server, shown, buffer, metadata, lag, before, last, oneEach, missed>>

\* SSL_write() waits while the connection is full.
SendRequest ==
    /\ requests < REQCAP
    /\ requests' = requests + 1
    /\ lag' = lag + 1
    /\ before' = last
    /\ last' = now
    /\ UNCHANGED <<now, left, current, inbox, shown, buffer, metadata, oneEach, missed>>

\* (mutant) two requests before the loop
SendFirstTwice ==
    /\ pc = "first" /\ requests + 1 < REQCAP
    /\ requests' = requests + 2
    /\ lag' = lag + 2
    /\ pc' = "send"
    /\ UNCHANGED <<now, left, current, inbox, shown, buffer, metadata, before, last,
                   oneEach, missed>>

\* (mutant) the request is left out
SendNothing ==
    /\ pc = "send" /\ pc' = "read"
    /\ UNCHANGED <<server, shown, buffer, metadata, lag, before, last, oneEach, missed>>

SendFirst == pc = "first" /\ SendRequest /\ pc' = "send"

Send == pc = "send" /\ SendRequest /\ pc' = "read"

\* (mutant) a read that gives up when nothing is there
ReadTimesOut ==
    /\ pc = "read"
    /\ pc' = "sleep"
    /\ UNCHANGED <<server, shown, buffer, metadata, lag, before, last, oneEach, missed>>

\* A part of an answer may hold the key and the values, or not the key, or
\* the key and not all of the values: then the search for the next colon or
\* quote runs out of the buffer, into whatever is there.
Read ==
    /\ pc = "read" /\ inbox # << >>
    /\ inbox' = Tail(inbox)
    /\ lag' = lag - Head(inbox).ends
    /\ \/ /\ shown' = Head(inbox).song
          /\ metadata' = Found[Head(inbox).song]
          /\ buffer' = Array[Head(inbox).song]
          /\ pc' = "return"
          /\ UNCHANGED missed
       \/ /\ missed' = TRUE
          /\ buffer' = << >>
          /\ pc' = "return"
          /\ UNCHANGED <<shown, metadata>>
       \/ /\ ~oneEach
          /\ shown' = Head(inbox).song
          /\ metadata' = Nothing
          /\ buffer' = << >>
          /\ pc' \in {"return", "ended"}
          /\ UNCHANGED missed
    /\ UNCHANGED <<now, requests, left, current, before, last, oneEach>>

\* read_response() returns: its array is gone, and what metadata points to
\* with it.  The thread does not look at it any more.
Return ==
    /\ pc = "return"
    /\ buffer' = << >>
    /\ pc' = "sleep"
    /\ UNCHANGED <<server, shown, metadata, lag, before, last, oneEach, missed>>

\* The connection is closed or broken: the thread ends the process.
Broken ==
    /\ pc \in {"first", "send", "read"}
    /\ pc' = "ended"
    /\ UNCHANGED <<server, shown, buffer, metadata, lag, before, last, oneEach, missed>>

Sleep ==
    /\ pc = "sleep"
    /\ pc' = "send"
    /\ UNCHANGED <<server, shown, buffer, metadata, lag, before, last, oneEach, missed>>

Thread == Start \/ SendFirst \/ Send \/ Read \/ Return \/ Sleep

Next == NextSong \/ Server \/ Thread \/ Broken

Spec == Init /\ [][Next]_vars

\* The thread is scheduled, and the server answers what it is asked.
FairSpec == Spec /\ WF_vars(Thread) /\ WF_vars(Server)

-----------------------------------------------------------------------------
Alive == pc \notin {"spin", "ended"}

TypeOK ==
    /\ now \in DOMAIN Songs /\ current \in DOMAIN Songs
    /\ requests \in 0 .. REQCAP
    /\ left \in 0 .. MaxPieces
    /\ inbox \in Seq([song : DOMAIN Songs, ends : 0 .. 2]) /\ Len(inbox) <= ANSCAP
    /\ pc \in {"start", "first", "send", "read", "return", "sleep", "spin", "ended"}
    /\ shown \in 0 .. Len(Songs)
    /\ buffer \in Seq(Chars \cup {"nul"})
    /\ metadata \in [artist : Strings, title : Strings]
    /\ lag \in Nat
    /\ before \in DOMAIN Songs /\ last \in DOMAIN Songs
    /\ oneEach \in BOOLEAN /\ missed \in BOOLEAN

(***************************************************************************)
(* While every answer is one record, the client is exactly one answer      *)
(* behind whenever it sleeps, and shows what was playing when it sent the  *)
(* request before the last, or something later (ssl_read.c:127-135).       *)
(***************************************************************************)
OneBehind ==
    oneEach /\ pc = "sleep" => lag = 1 /\ (missed \/ shown >= before)

(***************************************************************************)
(* As long as read_response() runs, and its array exists, artist.data      *)
(* points to the artist of the song shown, with his NUL behind him, though *)
(* the title has been looked for and cut since (ssl_read.c:362-381).       *)
(***************************************************************************)
ArtistRight ==
    buffer # << >> =>
        LET artist == metadata.artist
        IN  /\ SubSeq(buffer, artist.data, artist.data + artist.len - 1)
                  = Songs[shown].artist
            /\ buffer[artist.data + artist.len] = "nul"

(***************************************************************************)
(* While every answer is one record, the thread and the server never wait  *)
(* for each other, both with the connection full.                          *)
(***************************************************************************)
NeverStuck ==
    oneEach => ~(/\ pc = "send" /\ requests = REQCAP
                 /\ left > 0 /\ Len(inbox) = ANSCAP)

(***************************************************************************)
(* A song is shown, or a later one, as long as the answers are one record  *)
(* each, the search does not miss and the connection holds.                *)
(***************************************************************************)
EventuallyShown ==
    \A s \in DOMAIN Songs :
        now >= s ~> shown >= s \/ ~oneEach \/ missed \/ ~Alive
=============================================================================
