-------------------------------- MODULE Doors ---------------------------------
(***************************************************************************)
(* The edges of the router, where a request comes in and where a call goes *)
(* out: which handler a path reaches (server.js), how a body is read and   *)
(* the login of the panel is throttled (src/http.js, src/admin.js), and    *)
(* what each of the three senders of a chat call puts on the wire: proxy() *)
(* (src/http.js), jsonEnforce() (src/jsonenforce.js) and the test button   *)
(* of the panel (src/diagnostics.js).                                      *)
(***************************************************************************)
EXTENDS Integers, SequencesExt, FiniteSetsExt

CONSTANTS
    Errands,      \* what a behaviour is about: a knock, a call to send, a body to read, or the login
    UiRoutes,     \* the pages of the panel, paths as sequences of names
    MaxBody,      \* MAX_BODY_BYTES, in chunks
    Visitors,     \* client addresses that try the login
    Trusted,      \* ADMIN_TRUSTED_IPS
    MaxTries,     \* 30 in the code
    Window,       \* 5 minutes
    MapMax,       \* 5000 entries
    EndOfTime     \* bound on the clock

\* The paths the documentation names, each with the door it should find.  A knock is [host, method, path]; a path
\* is [seg, slash, ext].
Path(seg, slash, ext) == [seg |-> seg, slash |-> slash, ext |-> ext]
Bare(seg) == Path(seg, FALSE, FALSE)
Knock(host, method, path, door) ==
    [kind |-> "knock", knock |-> [host |-> host, method |-> method, path |-> path], door |-> door]
GetPaths == {<<Path(<<>>, TRUE, FALSE), "panel">>, <<Path(<<"_next", "x">>, FALSE, TRUE), "asset">>,
          <<Bare(<<"docs">>), "to docs">>, <<Path(<<"docs">>, TRUE, FALSE), "docs">>,
          <<Path(<<"docs", "identity.md">>, FALSE, TRUE), "docs">>, <<Path(<<"prices.json">>, FALSE, TRUE), "prices">>,
          <<Bare(<<"v1", "models">>), "models">>, <<Bare(<<"api", "v1", "models">>), "models">>,
          <<Bare(<<"v1", "templates">>), "image catalog">>, <<Bare(<<"v1", "image-templates">>), "templates">>,
          <<Bare(<<"api", "v1", "image-templates">>), "templates">>,
          <<Bare(<<"v1", "image-templates", "slug", "reference">>), "reference">>,
          <<Bare(<<"api", "state">>), "admin api">>}
    \cup {<<Bare(u), "panel">> : u \in UiRoutes} \cup {<<Path(u, TRUE, FALSE), "panel">> : u \in UiRoutes}
PostPaths == {<<Bare(<<"v1", "chat", "completions">>), "router">>,
           <<Bare(<<"api", "v1", "chat", "completions">>), "router">>,
           <<Bare(<<"v1", "messages">>), "router">>, <<Bare(<<"v1", "embeddings">>), "router">>,
           <<Bare(<<"local", "v1", "chat", "completions">>), "local">>, <<Bare(<<"otel", "v1", "logs">>), "otel">>,
           <<Bare(<<"v1", "images", "generations">>), "images">>,
           <<Bare(<<"api", "v1", "images", "variations">>), "images">>,
           <<Bare(<<"api", "login">>), "admin api">>, <<Bare(<<"admin", "api", "login">>), "tombstone">>}
Documented ==
    {Knock("main", "GET", x[1], x[2]) : x \in GetPaths} \cup {Knock("main", "POST", x[1], x[2]) : x \in PostPaths}
    \cup {Knock("main", "HEAD", Path(u, FALSE, FALSE), "panel") : u \in UiRoutes}
    \cup {Knock("main", "OPTIONS", Bare(<<"v1", "messages">>), "cors"),
          Knock("docs", "GET", Path(<<>>, TRUE, FALSE), "docs"),
          Knock("docs", "GET", Path(<<"identity.md">>, FALSE, TRUE), "docs")}

\* A call is [route, body]: the lane with what it carries, and a chat completion of an OpenAI client in every shape
\* the senders tell apart.
Bodies == [format : {"text", "json_object", "json_schema"}, words : SUBSET {"json"}, tools : BOOLEAN,
           cached : BOOLEAN, image : BOOLEAN, think : {"unset", "on", "off"}, changed : {FALSE}]
\* The lanes that speak OpenAI's dialect and relay it.
Relays == {"crazyrouter", "openrouter", "groq", "freeaiapikey"}

\* A page of the panel is at a path of its own, under none of the names the router answers to.  A lane that needs a
\* key claims no model without one.
ASSUME DoorsAssumption ==
    /\ MaxBody \in Nat /\ MaxTries \in Nat \ {0} /\ Window \in Nat \ {0} /\ MapMax \in Nat /\ EndOfTime \in Nat
    /\ \A u \in UiRoutes : u \in Seq(STRING) /\ Len(u) > 0 /\ u[1] \notin {"api", "admin", "docs", "prices.json", "v1"}
    /\ \A e \in Errands :
          /\ e.kind = "knock" => e \in Documented
          /\ e.kind = "call" => /\ e.body \in Bodies /\ e.route.provider \in Relays \cup {"local", "claudecode"}
                                /\ e.route.provider \notin {"local", "crazyrouter"} => e.route.token # "none"

VARIABLES
    errand,
    upload,   \* a body being read: what has arrived, and what readBody() resolved to
    hits,     \* loginHits: address |-> [n, reset]
    minute,
    tries     \* history: when an address had a password compared, within a window and since the map was emptied

doorVars == <<errand, upload, hits, minute, tries>>

(* -------------------------------- coming in -------------------------------- *)
Under(p, pre) == IsPrefix(pre, p.seg) /\ (Len(p.seg) > Len(pre) \/ p.slash)
Exactly(p, seg) == p.seg = seg /\ ~p.slash
\* Defect: the prefix of the clients that speak OpenAI's dialect from a base of /api is not known.
DefectV1(p, rest) == Exactly(p, <<"v1">> \o rest)
V1(p, rest) == Exactly(p, <<"v1">> \o rest) \/ Exactly(p, <<"api", "v1">> \o rest)
Reads(k) == k.method \in {"GET", "HEAD"}
LastTwo(p) == SubSeq(p.seg, Len(p.seg) - 1, Len(p.seg))

\* The tests of the server in their order: the first that holds opens its door.
Tests(k) ==
    LET p == k.path
        main == k.host = "main"
    IN << <<main /\ Under(p, <<"api">>) /\ ~Under(p, <<"api", "v1">>), "admin api">>,
          <<main /\ (Exactly(p, <<"admin">>) \/ Under(p, <<"admin">>)), "tombstone">>,
          <<main /\ Reads(k) /\ p.ext /\ ~Under(p, <<"docs">>) /\ ~Exactly(p, <<"prices.json">>), "asset">>,
          <<main /\ Reads(k) /\ (p.seg = <<>> \/ p.seg \in UiRoutes), "panel">>,
          <<Exactly(p, <<"docs">>), "to docs">>,
          <<k.host = "docs" \/ Under(p, <<"docs">>), "docs">>,
          <<Exactly(p, <<"prices.json">>) \/ Exactly(p, <<"prices">>), "prices">>,
          <<k.method = "OPTIONS", "cors">>,
          <<Under(p, <<"local">>), "local">>,
          <<k.method = "GET" /\ V1(p, <<"models">>), "models">>,
          <<k.method = "POST" /\ Under(p, <<"otel", "v1">>), "otel">>,
          <<k.method = "POST" /\ ~p.slash /\ Len(p.seg) > 1
              /\ LastTwo(p) \in {<<"images", i>> : i \in {"generations", "edits", "variations"}}, "images">>,
          <<k.method = "GET" /\ (\E c \in {"templates", "loras"} : Exactly(p, <<"v1", c>>)), "image catalog">>,
          <<k.method = "GET" /\ V1(p, <<"image-templates">>), "templates">>,
          <<k.method = "GET" /\ V1(p, <<"image-templates", "slug", "reference">>), "reference">>,
          <<TRUE, "router">> >>
Door(k) == LET t == Tests(k) IN t[SelectInSeq(t, LAMBDA x : x[1])][2]

(* -------------------------------- going out -------------------------------- *)
\* buildHeaders, and the headers a subscription needs whatever the caller sent.
Credential(r) ==
    CASE r.provider = "crazyrouter" -> "crazyrouter key"
      [] r.token # "none" -> r.token
      [] OTHER -> "the caller's"

\* applyLocalThinkingDefault: the flag is moved to where llama.cpp reads it, off unless the caller asked.
Thinking(b) == IF b.think = "unset" THEN "off" ELSE b.think

SaysJson(b) == "json" \in b.words
AsksJson(b) == b.format # "text"
\* Defect: the word is only asked for where a schema is.
DefectNeedsKeyword(r, b) == r.provider \notin {"local", "claudecode"} /\ b.format = "json_schema"
\* needsJsonKeyword: relays of OpenAI's dialect refuse json_object unless a message says "json".
NeedsKeyword(r, b) == r.provider \notin {"local", "claudecode"} /\ b.format = "json_object"
Instructed(b) == [b EXCEPT !.words = @ \cup {"json"}, !.changed = TRUE]

\* headroomCompress for the providers `on`: the messages are rewritten only where no cached prefix and no tools
\* would be broken by it; what comes back may have lost a word.
Compressed(r, b, on, words) ==
    IF r.provider \notin on \/ b.cached \/ b.tools \/ b.image THEN b
    ELSE [b EXCEPT !.changed = TRUE, !.words = @ \cap words]

Subscription(r) == r.provider = "claudecode"
Wire(r, b, credential, think) ==
    [path |-> IF Subscription(r) THEN "/v1/messages" ELSE "/v1/chat/completions", base |-> r.base,
     credential |-> credential, model |-> r.model, body |-> b, thinking |-> think]
Thought(r, b) == IF r.provider = "local" THEN Thinking(b) ELSE b.think

ProxyWire(r, b) == Wire(r, b, Credential(r), Thought(r, b))

\* jsonEnforce: a subscription has no response_format, so the instruction takes its place.
Enforced(r, b) ==
    LET said == IF Subscription(r) THEN [Instructed(b) EXCEPT !.format = "text"]
                ELSE IF NeedsKeyword(r, b) /\ ~SaysJson(b) THEN Instructed(b) ELSE b
    IN Wire(r, said, Credential(r), Thought(r, b))

\* adminTest, a second copy of the credentials of proxy().
TestCredential(r) ==
    CASE r.provider = "crazyrouter" -> "crazyrouter key"
      [] r.provider = "local" /\ r.gated -> "gate token"
      [] r.token # "none" -> r.token
      [] OTHER -> "none"
Tested(r, b) == Wire(r, b, TestCredential(r), b.think)

\* dispatch, with jsonEnforce on: a body is compressed first; if it asks for JSON it is enforced, else proxied.
Sent(r, b, on, words) ==
    LET c == Compressed(r, b, on, words) IN IF AsksJson(b) THEN Enforced(r, c) ELSE ProxyWire(r, c)

(* ------------------------------ reading a body ----------------------------- *)
Reading == errand.kind = "body" /\ upload.got = "reading" /\ UNCHANGED <<errand, hits, minute, tries>>

\* A chunk that goes over the cap answers 413 and destroys the request.
Chunk ==
    /\ Reading
    /\ upload' = IF upload.size + 1 > MaxBody THEN [size |-> upload.size + 1, got |-> "413", whole |-> FALSE]
               ELSE [upload EXCEPT !.size = @ + 1]
BodyEnds == Reading /\ upload' = [upload EXCEPT !.got = "bytes", !.whole = TRUE]
\* The caller goes away: `error` resolves what has arrived.
BodyAborted == Reading /\ upload' = [upload EXCEPT !.got = "bytes"]

(* -------------------------------- the login -------------------------------- *)
NoHits == [v \in {} |-> 0]
\* What is a window old stands first.
Recent(s) == SubSeq(s, 1 + Cardinality({i \in DOMAIN s : minute - s[i] >= Window}), Len(s))

\* throttled: one fixed window per address, counted before the password is looked at.
Record(v) ==
    LET old == IF v \in DOMAIN hits THEN hits[v] ELSE [n |-> 0, reset |-> minute + Window]
        rec == IF minute > old.reset THEN [n |-> 0, reset |-> minute + Window] ELSE old
    IN [rec EXCEPT !.n = IF @ > MaxTries THEN @ ELSE @ + 1]     \* bound: beyond MaxTries all counts answer alike
Noted(v) ==
    LET all == [w \in DOMAIN hits \cup {v} |-> IF w = v THEN Record(v) ELSE hits[w]]
    IN IF Cardinality(DOMAIN all) > MapMax THEN NoHits ELSE all

Login(v) ==
    /\ errand.kind = "login"
    /\ IF v \in Trusted THEN hits' = hits /\ tries' = tries
       ELSE /\ hits' = Noted(v)
            /\ tries' = IF Record(v).n > MaxTries THEN tries
                        ELSE [w \in Visitors |-> (IF Noted(v) = NoHits THEN <<>> ELSE Recent(tries[w]))
                                                 \o (IF w = v THEN <<minute>> ELSE <<>>)]
    /\ UNCHANGED <<errand, upload, minute>>
ClockTicks ==
    /\ errand.kind = "login" /\ minute < EndOfTime /\ minute' = minute + 1
    /\ UNCHANGED <<errand, upload, hits, tries>>

DoorsInit(e) ==
    /\ errand = e
    /\ upload = [size |-> 0, got |-> "reading", whole |-> FALSE]
    /\ hits = NoHits /\ minute = 0 /\ tries = [v \in Visitors |-> <<>>]
DoorsNext == Chunk \/ BodyEnds \/ BodyAborted \/ ClockTicks \/ \E v \in Visitors : Login(v)

DoorsSpec == (\E e \in Errands : DoorsInit(e)) /\ [][DoorsNext]_doorVars

(* -------------------------------- properties ------------------------------- *)
DoorsTypeOK ==
    /\ errand \in Errands /\ upload.size \in 0..(MaxBody + 1) /\ upload.got \in {"reading", "bytes", "413"}
    /\ DOMAIN hits \subseteq Visitors /\ minute \in 0..EndOfTime

\* Each path the documentation names opens its own door, for a browser and for an API client, whatever rule
\* stands before it; and a stray path of the panel is not taken for inference.
OwnDoor == errand.kind = "knock" => Door(errand.knock) = errand.door

\* A call reaches its lane the same way whoever sends it: same address, same credential, same model; enforcing
\* JSON changes the words of a body only where the lane would refuse or ignore the format.
SameWire ==
    errand.kind = "call" =>
        LET r == errand.route
            b == errand.body
            a == ProxyWire(r, b)
            e == Enforced(r, b)
            t == Tested(r, b)
        IN /\ [e EXCEPT !.body = b] = a
           /\ r.provider # "local" => t = a
           /\ r.provider = "local" => t.base = a.base /\ t.path = a.path /\ t.model = a.model

\* Whatever the compressor is switched on for and does to the words: a lane that wants the word gets it; the
\* lane that compiles the format keeps it; and a cached prefix or a tool conversation goes out byte for byte,
\* unless its lane has no other way to ask for JSON.
JsonIsAsked ==
    errand.kind = "call" =>
        \A on \in SUBSET (Relays \cup {"local", "claudecode"}), words \in SUBSET {"json"} :
            LET r == errand.route
                b == errand.body
                w == Sent(r, b, on, words).body
            IN /\ w.format = "json_object" /\ r.provider \in Relays => SaysJson(w)
               /\ AsksJson(b) /\ w.format = "text" => SaysJson(w)
               /\ w.format # b.format => r.provider = "claudecode"
               /\ (b.cached \/ b.tools) /\ w # b => AsksJson(b) /\ r.provider # "local" /\ w.changed
                                                    /\ (SaysJson(b) => r.provider = "claudecode")

\* A body over the cap is never handed on, and one that ended is handed on whole.
BodyCapped == upload.got = "bytes" => upload.size <= MaxBody

\* An address gets at most two windows' worth of guesses compared in the length of one, as long as no more
\* than MapMax addresses try: one more empties the map, and everybody starts anew.
GuessesBounded == \A v \in Visitors \ Trusted : Len(Recent(tries[v])) <= 2 * MaxTries

\* An address that was refused is let in again one window later: a refusal does not extend the window.
RefusedForAWindow == \A v \in DOMAIN hits : hits[v].reset <= minute + Window /\ hits[v].n >= 1

DoorsInv == /\ DoorsTypeOK /\ OwnDoor /\ SameWire /\ JsonIsAsked
            /\ BodyCapped /\ GuessesBounded /\ RefusedForAWindow

\* Not kept when the caller hangs up (http.js:86 resolves what had arrived; http.js:63-64 calls that worse).
WholeOrNothing == upload.got = "bytes" => upload.whole
\* Not kept for a gated local model that is served with an api key, nor for one that thinks unless told not to.
TestIsACall == errand.kind = "call" => Tested(errand.route, errand.body) = ProxyWire(errand.route, errand.body)
===============================================================================
