--------------------------- MODULE ServiceProofs ----------------------------
(***************************************************************************)
(* Proofs about the daemon as its clients meet it, for any daemons,        *)
(* requests, calls and bounds, and for any names of projects and           *)
(* processes.                                                              *)
(*                                                                         *)
(* The refinement of Rpc needs to know how far a request is in the daemon  *)
(* when its client is told something: Told.                                *)
(***************************************************************************)
EXTENDS Service, SequenceTheorems, TLAPS

-----------------------------------------------------------------------------
(* Short sequences: a path has at most three segments. *)
LEMMA SubOne ==
  ASSUME NEW S, NEW s \in Seq(S), NEW m \in 1..Len(s)
  PROVE  SubSeq(s, m, m) = <<s[m]>>
<1>. DEFINE t == <<s[m]>>
<1>1. /\ SubSeq(s, m, m) \in Seq(S) /\ Len(SubSeq(s, m, m)) = 1
      /\ SubSeq(s, m, m)[1] = s[m]
  BY SubSeqProperties
<1>2. t \in Seq(S) /\ Len(t) = 1 /\ t[1] = s[m]
  BY ElementOfSeq
<1>. HIDE DEF t
<1>3. \A i \in 1..1 : SubSeq(s, m, m)[i] = t[i]
  BY <1>1, <1>2
<1>4. SubSeq(s, m, m) = t
  BY <1>1, <1>2, <1>3, SeqEqual
<1>. QED
  BY <1>4 DEF t

LEMMA SubTwo ==
  ASSUME NEW S, NEW s \in Seq(S),
         NEW m \in 1..Len(s), NEW n \in 1..Len(s), n = m + 1
  PROVE  SubSeq(s, m, n) = <<s[m], s[n]>>
<1>. DEFINE t == <<s[m], s[n]>>
<1>1. /\ SubSeq(s, m, n) \in Seq(S) /\ Len(SubSeq(s, m, n)) = 2
      /\ \A i \in 1..2 : SubSeq(s, m, n)[i] = s[m+i-1]
  BY SubSeqProperties
<1>2. s[m] \in S /\ s[n] \in S
  BY ElementOfSeq
<1>3. t \in Seq(S) /\ Len(t) = 2 /\ t[1] = s[m] /\ t[2] = s[n]
  BY <1>2
<1>4. \A i \in 1..2 : SubSeq(s, m, n)[i] = t[i]
  BY <1>1, <1>3
<1>. HIDE DEF t
<1>5. SubSeq(s, m, n) = t
  BY <1>1, <1>3, <1>4, SeqEqual
<1>. QED
  BY <1>5 DEF t

LEMMA Pairs ==
  \A a, b :
    /\ Len(<<a, b>>) = 2 /\ <<a, b>>[1] = a /\ <<a, b>>[2] = b
    /\ SubSeq(<<a, b>>, 1, 1) = <<a>> /\ SubSeq(<<a, b>>, 2, 2) = <<b>>
    /\ <<a>> \o <<b>> = <<a, b>>
<1>. TAKE a, b
<1>. DEFINE S == {a, b}
            t == <<a, b>>
            u == <<a>> \o <<b>>
<1>1. t \in Seq(S) /\ Len(t) = 2 /\ t[1] = a /\ t[2] = b
  OBVIOUS
<1>2. <<a>> \in Seq(S) /\ <<b>> \in Seq(S) /\ Len(<<a>>) = 1 /\ Len(<<b>>) = 1
  OBVIOUS
<1>3. u \in Seq(S) /\ Len(u) = 2 /\ u[1] = a /\ u[2] = b
  BY <1>2, ConcatProperties
<1>. HIDE DEF t, u, S
<1>4. SubSeq(t, 1, 1) = <<t[1]>> /\ SubSeq(t, 2, 2) = <<t[2]>>
  BY <1>1, SubOne
<1>5. \A i \in 1..2 : u[i] = t[i]
  BY <1>1, <1>3
<1>6. u = t
  BY <1>1, <1>3, <1>5, SeqEqual
<1>. QED
  BY <1>1, <1>4, <1>6 DEF t, u

LEMMA Triples ==
  \A a, b, c :
    /\ Len(<<a, b, c>>) = 3
    /\ <<a, b, c>>[1] = a /\ <<a, b, c>>[3] = c
    /\ SubSeq(<<a, b, c>>, 1, 2) = <<a, b>>
    /\ SubSeq(<<a, b, c>>, 2, 3) = <<b, c>>
    /\ <<a, b>> \o <<c>> = <<a, b, c>>
    /\ <<a>> \o <<b, c>> = <<a, b, c>>
<1>. TAKE a, b, c
<1>. DEFINE S == {a, b, c}
            t == <<a, b, c>>
            u == <<a, b>> \o <<c>>
            v == <<a>> \o <<b, c>>
<1>1. t \in Seq(S) /\ Len(t) = 3 /\ t[1] = a /\ t[2] = b /\ t[3] = c
  OBVIOUS
<1>2. /\ <<a>> \in Seq(S) /\ <<c>> \in Seq(S)
      /\ <<a, b>> \in Seq(S) /\ <<b, c>> \in Seq(S)
      /\ Len(<<a>>) = 1 /\ Len(<<c>>) = 1
      /\ Len(<<a, b>>) = 2 /\ Len(<<b, c>>) = 2
  OBVIOUS
<1>3. u \in Seq(S) /\ Len(u) = 3 /\ u[1] = a /\ u[2] = b /\ u[3] = c
  BY <1>2, ConcatProperties
<1>4. v \in Seq(S) /\ Len(v) = 3 /\ v[1] = a /\ v[2] = b /\ v[3] = c
  BY <1>2, ConcatProperties
<1>. HIDE DEF S, t, u, v
<1>5. /\ 1 \in 1..Len(t) /\ 2 \in 1..Len(t) /\ 3 \in 1..Len(t)
      /\ 2 = 1 + 1 /\ 3 = 2 + 1
  BY <1>1
<1>6. SubSeq(t, 1, 2) = <<t[1], t[2]>>
  BY <1>1, <1>5, SubTwo
<1>7. SubSeq(t, 2, 3) = <<t[2], t[3]>>
  BY <1>1, <1>5, SubTwo
<1>8. \A i \in 1..3 : u[i] = t[i] /\ v[i] = t[i]
  BY <1>1, <1>3, <1>4
<1>9. u = t /\ v = t
  BY <1>1, <1>3, <1>4, <1>8, SeqEqual
<1>. QED
  BY <1>1, <1>6, <1>7, <1>9 DEF t, u, v

-----------------------------------------------------------------------------
(* Paths.  What a call looks like. *)
LEMMA Shapes ==
  ASSUME NEW c \in SocketCalls
  PROVE  /\ c = Call(c.op, c.project, c.process)
         /\ \/ /\ c.op \in Actions \cup Reads
               /\ c.project \in ProjectNames
               /\ c.process \in ProcessNames \cup {""}
            \/ /\ c.op \in {"status", "add", "remove"}
               /\ c.project \in ProjectNames /\ c.process = ""
            \/ /\ c.op \in {"ps", "version", "shutdown", "gc"}
               /\ c.project = "" /\ c.process = ""
  BY DEF SocketCalls, LibraryCalls, Call

(* Every method of the library and the command line is in the map.         *)
LEMMA SocketFinds == SocketArrives
  BY Shapes DEF SocketArrives, ServedBySocket, Methods, Actions, Reads

(* The mux, for a path of more than one segment ...                        *)
LEMMA RouteLong ==
  ASSUME NEW verb, NEW path, NEW body, Len(path) # 1
  PROVE  Route(verb, path, body) =
           IF path[1] \in Subtrees THEN RouteSubtree(verb, path)
           ELSE IF verb = "POST" THEN RouteAction(path) ELSE Refused
  BY Zenon DEF Route

(* ... which ends with an action, ...                                      *)
LEMMA ActionOf ==
  \A path, key : \A op \in Actions :
    (/\ Len(path) \in {2, 3} /\ path[Len(path)] = op
     /\ SubSeq(path, 1, Len(path) - 1) = key)
    => RouteAction(path) = KeyCall(op, key)
  BY Zenon DEF RouteAction

(* ... or begins with a read.                                              *)
LEMMA ReadOf ==
  \A path, key :
    (/\ path[1] \in {"logs", "errors", "status"}
     /\ SubSeq(path, 2, Len(path)) = key
     /\ path[1] = "status" => Len(key) = 1)
    => RouteSubtree("GET", path) =
         IF path[1] = "logs" /\ Len(key) > 1 /\ key[Len(key)] = "stream"
         THEN KeyCall("stream", SubSeq(key, 1, Len(key) - 1))
         ELSE KeyCall(path[1], key)
<1>. TAKE path, key
<1>. HAVE /\ path[1] \in {"logs", "errors", "status"}
          /\ SubSeq(path, 2, Len(path)) = key
          /\ path[1] = "status" => Len(key) = 1
<1>1. path[1] # "config"
  OBVIOUS
<1>. QED
  BY <1>1, Zenon DEF RouteSubtree

(* What a key stands for.                                                  *)
LEMMA Keyed ==
  ASSUME NEW op, NEW a, NEW b
  PROVE  /\ KeyCall(op, <<a>>) = Call(op, a, "")
         /\ KeyCall(op, <<a, b>>) = Call(op, a, b)
<1>1. Len(<<a>>) \in {1, 2} /\ Len(<<a>>) # 2 /\ <<a>>[1] = a
  OBVIOUS
<1>2. Len(<<a, b>>) \in {1, 2} /\ Len(<<a, b>>) = 2
      /\ <<a, b>>[1] = a /\ <<a, b>>[2] = b
  OBVIOUS
<1>. QED
  BY <1>1, <1>2, Zenon DEF KeyCall

(* An action is the last segment of its path.                              *)
LEMMA ActionRoutes ==
  ASSUME NEW c \in LibraryCalls, c.op \in Actions
  PROVE  ServedByHttp(c) = c <=> ~Shadowed(c)
<1>1. /\ c = Call(c.op, c.project, c.process)
      /\ c.op \in {"start", "stop", "restart"}
  BY Shapes DEF SocketCalls, Actions
<1>2. Verb(c) = "POST" /\ (Shadowed(c) <=> c.project \in Subtrees)
  BY <1>1 DEF Verb, Shadowed, Actions
<1>3. Path(c) = Key(c) \o <<c.op>>
  BY Zenon DEF Path
<1>4. ASSUME NEW path, path = Path(c), path[1] = c.project,
             Len(path) # 1, RouteAction(path) = c
      PROVE  ServedByHttp(c) = c <=> ~Shadowed(c)
  <2>1. c.project \in Subtrees => RouteSubtree("POST", path).op # c.op
    BY <1>1, <1>4 DEF RouteSubtree, Refused, Call
  <2>2. ServedByHttp(c) = Route("POST", path, c.project)
    BY <1>2, <1>4, Zenon DEF ServedByHttp
  <2>3. ServedByHttp(c) = IF c.project \in Subtrees
                          THEN RouteSubtree("POST", path) ELSE c
    BY <1>4, <2>2, RouteLong, Zenon
  <2>. QED
    BY <1>2, <2>1, <2>3
<1>5. CASE c.process = ""
  <2>. DEFINE path == <<c.project, c.op>>
  <2>1. path = Path(c)
    BY <1>3, <1>5, Pairs, Zenon DEF Key
  <2>2. Len(path) = 2 /\ path[1] = c.project /\ path[2] = c.op
        /\ SubSeq(path, 1, 1) = <<c.project>>
    BY Pairs, Zenon
  <2>. HIDE DEF path
  <2>3. /\ Len(path) \in {2, 3} /\ Len(path) # 1 /\ path[Len(path)] = c.op
        /\ SubSeq(path, 1, Len(path) - 1) = <<c.project>>
    BY <2>2
  <2>4. RouteAction(path) = KeyCall(c.op, <<c.project>>)
    BY <2>3, ActionOf, Zenon
  <2>5. RouteAction(path) = c
    BY <1>1, <1>5, <2>4, Keyed
  <2>. QED
    BY <1>4, <2>1, <2>2, <2>3, <2>5
<1>6. CASE c.process # ""
  <2>. DEFINE path == <<c.project, c.process, c.op>>
  <2>1. path = Path(c)
    <3>1. Key(c) = <<c.project, c.process>>
      BY <1>6, Zenon DEF Key
    <3>2. <<c.project, c.process>> \o <<c.op>> = path
      BY Triples
    <3>. QED
      BY <1>3, <3>1, <3>2
  <2>2. Len(path) = 3 /\ path[1] = c.project /\ path[3] = c.op
        /\ SubSeq(path, 1, 2) = <<c.project, c.process>>
    BY Triples, Zenon
  <2>. HIDE DEF path
  <2>3. /\ Len(path) \in {2, 3} /\ Len(path) # 1 /\ path[Len(path)] = c.op
        /\ SubSeq(path, 1, Len(path) - 1) = <<c.project, c.process>>
    BY <2>2
  <2>4. RouteAction(path) = KeyCall(c.op, <<c.project, c.process>>)
    BY <2>3, ActionOf, Zenon
  <2>5. RouteAction(path) = c
    BY <1>1, <2>4, Keyed
  <2>. QED
    BY <1>4, <2>1, <2>2, <2>3, <2>5
<1>. QED
  BY <1>5, <1>6

(* A read is the first segment, and the mux has a pattern for it.          *)
LEMMA ReadRoutes ==
  ASSUME NEW c \in LibraryCalls, c.op \in Reads
  PROVE  ServedByHttp(c) = c <=> ~Shadowed(c)
<1>1. /\ c = Call(c.op, c.project, c.process)
      /\ c.op \in {"logs", "errors"}
  BY Shapes DEF SocketCalls, Reads
<1>2. /\ Verb(c) = "GET" /\ c.op \notin Actions
      /\ Shadowed(c) <=> c.op = "logs" /\ c.process = "stream"
  BY <1>1 DEF Verb, Shadowed, Actions
<1>3. Path(c) = <<c.op>> \o Key(c)
  BY <1>2, Zenon DEF Path
<1>4. ASSUME NEW path, path = Path(c), path[1] = c.op, Len(path) # 1
      PROVE  ServedByHttp(c) = RouteSubtree("GET", path)
  <2>1. ServedByHttp(c) = Route("GET", path, c.project)
    BY <1>2, <1>4, Zenon DEF ServedByHttp
  <2>2. path[1] \in Subtrees
    BY <1>1, <1>4 DEF Subtrees
  <2>. QED
    BY <1>4, <2>1, <2>2, RouteLong, Zenon
<1>5. CASE c.process = ""
  <2>. DEFINE path == <<c.op, c.project>>
              key == <<c.project>>
  <2>1. path = Path(c)
    BY <1>3, <1>5, Pairs, Zenon DEF Key
  <2>2. Len(path) = 2 /\ path[1] = c.op /\ SubSeq(path, 2, 2) = key
    BY Pairs, Zenon
  <2>3. KeyCall(c.op, key) = c
    BY <1>1, <1>5, Keyed
  <2>4. ~(Len(key) > 1)
    OBVIOUS
  <2>. HIDE DEF path, key
  <2>5. /\ Len(path) # 1 /\ SubSeq(path, 2, Len(path)) = key
        /\ path[1] \in {"logs", "errors", "status"} /\ path[1] # "status"
    BY <1>1, <2>2
  <2>6. RouteSubtree("GET", path) = KeyCall(path[1], key)
    BY <2>4, <2>5, ReadOf, Zenon
  <2>. QED
    BY <1>2, <1>4, <1>5, <2>1, <2>2, <2>3, <2>5, <2>6
<1>6. CASE c.process # ""
  <2>. DEFINE path == <<c.op, c.project, c.process>>
              key == <<c.project, c.process>>
  <2>1. path = Path(c)
    <3>1. Key(c) = key
      BY <1>6, Zenon DEF Key
    <3>2. <<c.op>> \o key = path
      BY Triples
    <3>. QED
      BY <1>3, <3>1, <3>2
  <2>2. Len(path) = 3 /\ path[1] = c.op /\ SubSeq(path, 2, 3) = key
    <3>1. SubSeq(path, 2, 3) = key
      BY Triples
    <3>. QED
      BY <3>1, Triples, Zenon
  <2>3. KeyCall(c.op, key) = c
    BY <1>1, Keyed
  <2>4. Len(key) = 2 /\ key[2] = c.process
    BY Pairs, Zenon
  <2>. HIDE DEF path, key
  <2>5. /\ Len(path) # 1 /\ SubSeq(path, 2, Len(path)) = key
        /\ path[1] \in {"logs", "errors", "status"} /\ path[1] # "status"
    BY <1>1, <2>2
  <2>6. Len(key) > 1 /\ key[Len(key)] = c.process
    BY <2>4
  <2>7. CASE c.op = "logs" /\ c.process = "stream"
    <3>1. RouteSubtree("GET", path)
            = KeyCall("stream", SubSeq(key, 1, Len(key) - 1))
      BY <2>2, <2>5, <2>6, <2>7, ReadOf, Zenon
    <3>2. \A k : KeyCall("stream", k).op \in {"stream", "refused"}
      BY DEF KeyCall, Call, Refused
    <3>3. RouteSubtree("GET", path) # c
      BY <2>7, <3>1, <3>2
    <3>. QED
      BY <1>2, <1>4, <2>1, <2>2, <2>5, <2>7, <3>3
  <2>8. CASE ~(c.op = "logs" /\ c.process = "stream")
    <3>1. RouteSubtree("GET", path) = KeyCall(c.op, key)
      BY <2>2, <2>5, <2>6, <2>8, ReadOf, Zenon
    <3>. QED
      BY <1>2, <1>4, <2>1, <2>2, <2>3, <2>5, <2>8, <3>1
  <2>. QED
    BY <2>7, <2>8
<1>. QED
  BY <1>5, <1>6

(* The others have a pattern of their own.                                 *)
LEMMA OtherRoutes ==
  ASSUME NEW c \in LibraryCalls, c.op \notin Actions \cup Reads
  PROVE  ServedByHttp(c) = c /\ ~Shadowed(c)
<1>1. /\ c = Call(c.op, c.project, "")
      /\ c.op \in {"status", "add", "remove", "ps", "version"}
      /\ c.op \in {"ps", "version"} => c.project = ""
  BY DEF LibraryCalls, Call
<1>2. ~Shadowed(c) /\ c.op \notin Actions /\ c.op \notin Reads
  BY <1>1 DEF Shadowed, Actions
<1>3. CASE c.op = "status"
  <2>. DEFINE path == <<c.op, c.project>>
              key == <<c.project>>
  <2>1. path = Path(c)
    BY <1>2, <1>3, Zenon DEF Path
  <2>2. Len(path) = 2 /\ path[1] = c.op /\ SubSeq(path, 2, 2) = key
    BY Pairs, Zenon
  <2>3. KeyCall(c.op, key) = c
    BY <1>1, Keyed
  <2>4. Len(key) = 1 /\ Verb(c) = "GET"
    BY <1>3 DEF Verb, Actions
  <2>. HIDE DEF path, key
  <2>5. /\ Len(path) # 1 /\ SubSeq(path, 2, Len(path)) = key
        /\ path[1] \in {"logs", "errors", "status"} /\ path[1] # "logs"
    BY <1>3, <2>2
  <2>6. RouteSubtree("GET", path) = KeyCall(path[1], key)
    BY <2>4, <2>5, ReadOf, Zenon
  <2>7. ServedByHttp(c) = Route("GET", path, c.project)
    BY <2>1, <2>4, Zenon DEF ServedByHttp
  <2>8. path[1] \in Subtrees
    BY <1>3, <2>2 DEF Subtrees
  <2>9. ServedByHttp(c) = RouteSubtree("GET", path)
    BY <2>5, <2>7, <2>8, RouteLong, Zenon
  <2>. QED
    BY <1>2, <2>2, <2>3, <2>6, <2>9
<1>4. CASE c.op # "status"
  <2>1. Path(c) = <<c.op>>
    BY <1>2, <1>4, Zenon DEF Path
  <2>2. Len(<<c.op>>) = 1 /\ <<c.op>>[1] = c.op
    OBVIOUS
  <2>3. ServedByHttp(c) = Route(Verb(c), <<c.op>>, c.project)
    BY <2>1, Zenon DEF ServedByHttp
  <2>4. CASE c.op \in {"ps", "version"}
    <3>1. Verb(c) = "GET"
      BY <2>4 DEF Verb, Actions
    <3>. QED
      BY <1>1, <1>2, <2>2, <2>3, <2>4, <3>1, Zenon DEF Route
  <2>5. CASE c.op \in {"add", "remove"}
    <3>1. Verb(c) = "POST" /\ c.op # "version" /\ c.op # "ps"
      BY <2>5 DEF Verb, Actions
    <3>. QED
      BY <1>1, <1>2, <2>2, <2>3, <2>5, <3>1, Zenon DEF Route
  <2>. QED
    BY <1>1, <1>4, <2>4, <2>5
<1>. QED
  BY <1>3, <1>4

LEMMA HttpFinds == HttpArrives
  BY ActionRoutes, ReadRoutes, OtherRoutes DEF HttpArrives

(* Every call arrives where it is meant to, whatever the names are         *)
(* (client/client.go:163-247, web/handlers.go:59-237, web/sse.go:70-111);  *)
(* over HTTP exactly the shadowed ones do not.                             *)
THEOREM NamesArrive == Spec => []CallsArrive
<1>1. CallsArrive
  BY SocketFinds, HttpFinds DEF CallsArrive
<1>. QED
  BY <1>1, PTL

-----------------------------------------------------------------------------
(* The refinement.  How far a request is bounds what its client may have   *)
(* been told: nothing but "unknown" before it is over, and "refused" only  *)
(* if nothing was done.                                                    *)
Record ==
    [pc : {"idle", "sent", "run", "hung", "ran", "over"},
     via : Vias, call : Calls \cup {Refused}, at : Daemons \cup {Nobody},
     effect : {"none", "ok", "error"},
     reply : {"none", "ok", "error", "refused", "unknown"}]

Told(q) ==
    /\ q.pc = "idle" => q.reply = "none"
    /\ q.pc \in {"idle", "sent", "run", "hung"} => q.effect = "none"
    /\ q.pc = "ran" => q.effect \in {"ok", "error"}
    /\ q.pc # "over" => q.reply \in {"none", "unknown"}
    /\ q.reply = "refused" => q.effect = "none"

IInv == TypeOK /\ \A r \in Requests : Told(request[r])

(* What a step of Rpc does to the request it is about. *)
RpcStep(q, p) ==
    \/ /\ p.effect = q.effect /\ p.reply = q.reply
    \/ /\ q.effect = "none" /\ q.reply # "refused"
       /\ p.effect \in {"ok", "error"} /\ p.reply = q.reply
    \/ /\ q.effect # "none" /\ q.reply = "none"
       /\ p.effect = q.effect /\ p.reply = q.effect
    \/ /\ q.reply = "none" /\ p.effect = q.effect
       /\ p.reply = "unknown" \/ (p.reply = "refused" /\ q.effect = "none")

Good(q, p) == p \in Record /\ Told(p) /\ RpcStep(q, p)

(* A client is told something at the end, or not a second time.            *)
LEMMA Telling ==
  ASSUME NEW q \in Record, Told(q), UnderWay(q) \/ q.pc = "idle",
         NEW reply \in {"refused", "unknown"},
         reply = "refused" => q.effect = "none"
  PROVE  Good(q, Tell([q EXCEPT !.pc = "over"], reply))
<1>1. CASE q.reply = "none"
  <2>. DEFINE p == [q EXCEPT !.pc = "over", !.reply = reply]
  <2>1. p \in Record /\ p.pc = "over" /\ p.reply = reply /\ p.effect = q.effect
    BY DEF Record
  <2>2. Tell([q EXCEPT !.pc = "over"], reply) = p
    BY <1>1 DEF Tell, Record
  <2>3. RpcStep(q, p) /\ Told(p)
    BY <1>1, <2>1 DEF Told, RpcStep
  <2>. QED
    BY <2>1, <2>2, <2>3 DEF Good
<1>2. CASE q.reply # "none"
  <2>. DEFINE p == [q EXCEPT !.pc = "over"]
  <2>1. p \in Record /\ p.pc = "over" /\ p.reply = q.reply /\ p.effect = q.effect
    BY DEF Record
  <2>2. Tell(p, reply) = p
    BY <1>2, <2>1 DEF Tell
  <2>3. RpcStep(q, p) /\ Told(p)
    BY <1>2, <2>1 DEF Told, RpcStep, UnderWay
  <2>. QED
    BY <2>1, <2>2, <2>3 DEF Good
<1>. QED
  BY <1>1, <1>2

(* Each step of a request is a step of Rpc or a stutter.                   *)
LEMMA RequestMoves ==
  ASSUME IInv, NEW r \in Requests,
         \/ Issue(r) \/ Accept(r) \/ Handle(r) \/ Answer(r) \/ Break(r)
         \/ Hang(r) \/ TimeOut(r)
  PROVE  \E p : request' = [request EXCEPT ![r] = p] /\ Good(request[r], p)
<1>. DEFINE q == request[r]
<1>1. q \in Record /\ Told(q)
  BY DEF IInv, TypeOK, Record
<1>2. CASE Issue(r)
  <2>0. PICK via \in Vias :
          \E d \in Offers(via) :
          LET to == IF via = "http" THEN port
                    ELSE IF Reachable THEN socket ELSE Nobody
              s == [q EXCEPT !.via = via, !.call = d]
          IN  Update(r, IF to = Nobody
                        THEN Tell([s EXCEPT !.pc = "over"], "refused")
                        ELSE [s EXCEPT !.pc = "sent", !.at = to])
    BY <1>2 DEF Issue
  <2>1. PICK c \in Offers(via) :
          LET to == IF via = "http" THEN port
                    ELSE IF Reachable THEN socket ELSE Nobody
              s == [q EXCEPT !.via = via, !.call = c]
          IN  Update(r, IF to = Nobody
                        THEN Tell([s EXCEPT !.pc = "over"], "refused")
                        ELSE [s EXCEPT !.pc = "sent", !.at = to])
    BY <2>0
  <2>. DEFINE s == [q EXCEPT !.via = via, !.call = c]
              to == IF via = "http" THEN port
                    ELSE IF Reachable THEN socket ELSE Nobody
  <2>2. q.pc = "idle" /\ q.reply = "none" /\ q.effect = "none"
    BY <1>1, <1>2 DEF Issue, Told
  <2>3. c \in Calls /\ to \in Daemons \cup {Nobody}
    BY <2>1 DEF Offers, IInv, TypeOK
  <2>4. s \in Record /\ s.pc = "idle" /\ s.reply = "none" /\ s.effect = "none"
    BY <1>1, <2>2, <2>3 DEF Record
  <2>. HIDE DEF to
  <2>5. CASE to = Nobody
    <3>. DEFINE p == Tell([s EXCEPT !.pc = "over"], "refused")
    <3>1. Good(s, p)
      BY <2>4, Telling DEF Told
    <3>2. Good(q, p)
      BY <2>2, <2>4, <3>1 DEF Good, RpcStep
    <3>3. request' = [request EXCEPT ![r] = p]
      BY <2>1, <2>5 DEF Update, to
    <3>. QED
      BY <3>2, <3>3
  <2>6. CASE to # Nobody
    <3>. DEFINE p == [s EXCEPT !.pc = "sent", !.at = to]
    <3>1. Good(q, p)
      BY <2>2, <2>3, <2>4 DEF Good, Told, RpcStep, Record
    <3>2. request' = [request EXCEPT ![r] = p]
      BY <2>1, <2>6 DEF Update, to
    <3>. QED
      BY <3>1, <3>2
  <2>. QED
    BY <2>5, <2>6
<1>3. CASE Accept(r)
  <2>1. q.pc = "sent" /\ UnderWay(q) /\ q.effect = "none"
    BY <1>1, <1>3 DEF Accept, UnderWay, Told
  <2>2. CASE Served(q) = q.call
    <3>. DEFINE p == [q EXCEPT !.pc = "run"]
    <3>1. Good(q, p)
      BY <1>1, <2>1 DEF Good, Told, RpcStep, Record
    <3>2. request' = [request EXCEPT ![r] = p]
      BY <1>3, <2>2 DEF Accept, Update
    <3>. QED
      BY <3>1, <3>2
  <2>3. CASE Served(q) # q.call
    <3>. DEFINE p == Tell([q EXCEPT !.pc = "over"], "refused")
    <3>1. Good(q, p)
      BY <1>1, <2>1, Telling
    <3>2. request' = [request EXCEPT ![r] = p]
      BY <1>3, <2>3 DEF Accept, Update
    <3>. QED
      BY <3>1, <3>2
  <2>. QED
    BY <2>2, <2>3
<1>4. CASE Handle(r)
  <2>1. PICK e \in {"ok", "error"} :
          Update(r, [q EXCEPT !.pc = "ran", !.effect = e])
    BY <1>4 DEF Handle
  <2>. DEFINE p == [q EXCEPT !.pc = "ran", !.effect = e]
  <2>2. q.pc = "run"
    BY <1>4 DEF Handle
  <2>3. Good(q, p)
    BY <1>1, <2>2 DEF Good, Told, RpcStep, Record
  <2>. QED
    BY <2>1, <2>3 DEF Update
<1>5. CASE Hang(r)
  <2>. DEFINE p == [q EXCEPT !.pc = "hung"]
  <2>1. q.pc = "run" /\ request' = [request EXCEPT ![r] = p]
    BY <1>5 DEF Hang, Update
  <2>2. Good(q, p)
    BY <1>1, <2>1 DEF Good, Told, RpcStep, Record
  <2>. QED
    BY <2>1, <2>2
<1>6. CASE Answer(r)
  <2>. DEFINE s == [q EXCEPT !.pc = "over"]
              p == IF q.reply = "none" THEN [s EXCEPT !.reply = q.effect] ELSE s
  <2>1. q.pc = "ran" /\ Update(r, Tell(s, q.effect))
    BY <1>6 DEF Answer
  <2>2. Tell(s, q.effect) = p
    BY <1>1 DEF Tell, Record
  <2>3. Good(q, p)
    BY <1>1, <2>1 DEF Good, Told, RpcStep, Record
  <2>. QED
    BY <2>1, <2>2, <2>3 DEF Update
<1>7. CASE TimeOut(r)
  <2>. DEFINE p == [q EXCEPT !.reply = "unknown"]
  <2>1. UnderWay(q) /\ q.reply = "none" /\ Update(r, Tell(q, "unknown"))
    BY <1>7 DEF TimeOut
  <2>2. Tell(q, "unknown") = p
    BY <2>1 DEF Tell
  <2>3. Good(q, p)
    BY <1>1, <2>1 DEF Good, Told, RpcStep, Record, UnderWay
  <2>. QED
    BY <2>1, <2>2, <2>3 DEF Update
<1>8. CASE Break(r)
  <2>. DEFINE p == Tell([q EXCEPT !.pc = "over"], "unknown")
  <2>1. UnderWay(q) /\ request' = [request EXCEPT ![r] = p]
    BY <1>8 DEF Break, Update
  <2>2. Good(q, p)
    BY <1>1, <2>1, Telling
  <2>. QED
    BY <2>1, <2>2
<1>. QED
  BY <1>2, <1>3, <1>4, <1>5, <1>6, <1>7, <1>8

(* A step is one of a request, or leaves them alone.                       *)
LEMMA Steps ==
  ASSUME IInv, [Next]_vars
  PROVE  \/ UNCHANGED request
         \/ \E r \in Requests, p \in Record :
               /\ request' = [request EXCEPT ![r] = p] /\ Good(request[r], p)
<1>1. CASE DaemonStart \/ UNCHANGED vars
  BY <1>1 DEF DaemonStart, vars
<1>2. CASE \E d \in Daemons : DaemonStep(d) \/ Signal(d) \/ Crash(d)
  BY <1>2 DEF DaemonStep, RemoveStale, Listen, Close, Exit, Signal, Crash
<1>3. CASE \E r \in Requests : Issue(r) \/ RequestStep(r) \/ Hang(r) \/ TimeOut(r)
  <2>1. PICK r \in Requests : Issue(r) \/ RequestStep(r) \/ Hang(r) \/ TimeOut(r)
    BY <1>3
  <2>2. PICK p : request' = [request EXCEPT ![r] = p] /\ Good(request[r], p)
    BY <2>1, RequestMoves DEF RequestStep
  <2>. QED
    BY <2>2 DEF Good
<1>. QED
  BY <1>1, <1>2, <1>3 DEF Next

(* The types of what is not a request.                                     *)
LEMMA OtherTypes ==
  ASSUME IInv, [Next]_vars
  PROVE  /\ daemon' \in [Daemons ->
               [pc : {"unborn", "boot", "unlinked", "serve", "closed", "dead", "failed"},
                told : BOOLEAN]]
         /\ socket' \in Daemons \cup {Nobody} /\ port' \in Daemons \cup {Nobody}
         /\ advice' \in {"none", "stopped", "started"}
         /\ dials' \in 0..MaxDials /\ faults' \in 0..MaxFaults
<1>1. /\ MaxDials \in Nat /\ MaxFaults \in Nat
      /\ daemon \in [Daemons ->
            [pc : {"unborn", "boot", "unlinked", "serve", "closed", "dead", "failed"},
             told : BOOLEAN]]
      /\ socket \in Daemons \cup {Nobody} /\ port \in Daemons \cup {Nobody}
      /\ advice \in {"none", "stopped", "started"}
      /\ dials \in 0..MaxDials /\ faults \in 0..MaxFaults
  BY BoundAssumption DEF IInv, TypeOK
<1>. USE <1>1
<1>2. CASE UNCHANGED vars
  BY <1>2 DEF vars
<1>3. CASE DaemonStart
  BY <1>3 DEF DaemonStart, Goto
<1>4. ASSUME NEW d \in Daemons, DaemonStep(d) \/ Signal(d) \/ Crash(d)
      PROVE  /\ daemon' \in [Daemons ->
                   [pc : {"unborn", "boot", "unlinked", "serve", "closed", "dead", "failed"},
                    told : BOOLEAN]]
             /\ socket' \in Daemons \cup {Nobody} /\ port' \in Daemons \cup {Nobody}
             /\ advice' = advice /\ dials' = dials /\ faults' \in 0..MaxFaults
  <2>1. CASE RemoveStale(d) \/ Close(d)
    BY <2>1 DEF RemoveStale, Close, Goto
  <2>2. CASE Listen(d)
    BY <2>2 DEF Listen, Goto
  <2>3. CASE Exit(d)
    BY <2>3 DEF Exit, Goto, Released
  <2>4. CASE Signal(d)
    <3>1. daemon' = [daemon EXCEPT ![d].told = TRUE]
      BY <2>4 DEF Signal
    <3>2. /\ UNCHANGED <<socket, port, advice, dials>>
          /\ faults' \in 0..MaxFaults
      BY <2>4 DEF Signal, Fault
    <3>. QED
      BY <3>1, <3>2
  <2>5. CASE Crash(d)
    BY <2>5 DEF Crash, Goto, Released, Fault
  <2>. QED
    BY <1>4, <2>1, <2>2, <2>3, <2>4, <2>5 DEF DaemonStep
<1>5. ASSUME NEW r \in Requests,
             Issue(r) \/ RequestStep(r) \/ Hang(r) \/ TimeOut(r)
      PROVE  /\ daemon' \in [Daemons ->
                   [pc : {"unborn", "boot", "unlinked", "serve", "closed", "dead", "failed"},
                    told : BOOLEAN]]
             /\ socket' = socket /\ port' = port /\ dials' = dials
             /\ advice' \in {"none", "stopped", "started"} /\ faults' \in 0..MaxFaults
  <2>1. CASE Issue(r) \/ Accept(r) \/ TimeOut(r) \/ Break(r) \/ Answer(r)
    BY <2>1 DEF Issue, Accept, TimeOut, Break, Answer
  <2>2. CASE Handle(r)
    <3>1. \/ daemon' = daemon
          \/ daemon' = [daemon EXCEPT ![request[r].at].told = TRUE]
      BY <2>2 DEF Handle
    <3>2. UNCHANGED <<socket, port, advice, dials, faults>>
      BY <2>2 DEF Handle
    <3>. QED
      BY <3>1, <3>2
  <2>3. CASE Hang(r)
    BY <2>3 DEF Hang, Fault
  <2>. QED
    BY <1>5, <2>1, <2>2, <2>3 DEF RequestStep
<1>. QED
  BY <1>2, <1>3, <1>4, <1>5 DEF Next

(* The invariant.                                                          *)
LEMMA Initially == Init => IInv
<1>. SUFFICES ASSUME Init PROVE IInv
  OBVIOUS
<1>1. Fresh \in Record /\ Told(Fresh)
  BY DEF Fresh, Record, Told, Vias
<1>2. request \in [Requests -> Record] /\ \A r \in Requests : Told(request[r])
  BY <1>1 DEF Init
<1>. QED
  BY <1>2, BoundAssumption DEF Init, IInv, TypeOK, Record

LEMMA Inductive == IInv /\ [Next]_vars => IInv'
<1>. SUFFICES ASSUME IInv, [Next]_vars PROVE IInv'
  OBVIOUS
<1>1. request \in [Requests -> Record] /\ \A r \in Requests : Told(request[r])
  BY DEF IInv, TypeOK, Record
<1>2. request' \in [Requests -> Record] /\ \A r \in Requests : Told(request'[r])
  BY <1>1, Steps DEF Good
<1>. QED
  BY <1>2, OtherTypes DEF IInv, TypeOK, Record

(* A request is always one of these records, at a daemon that exists.      *)
THEOREM TypeCorrect == Spec => []TypeOK
<1>1. IInv => TypeOK
  BY DEF IInv
<1>. QED
  BY <1>1, Initially, Inductive, PTL DEF Spec

(* What clients are told is true, for every number of daemons and clients: *)
(* the daemon's service implements Rpc (ipc/client.go:23-56,               *)
(* client/client.go:112-148).                                              *)
THEOREM TellsTruth == Spec => ImplementsRpc
<1>1. Init => R!Init
  BY DEF Init, R!Init, Fresh
<1>2. IInv /\ [Next]_vars => [R!Next]_R!vars
  <2>. SUFFICES ASSUME IInv, [Next]_vars PROVE [R!Next]_R!vars
    OBVIOUS
  <2>. DEFINE effect == [r \in Requests |-> request[r].effect]
              reply == [r \in Requests |-> request[r].reply]
  <2>1. CASE UNCHANGED request
    BY <2>1 DEF R!vars
  <2>2. ASSUME NEW r \in Requests, NEW p \in Record,
               request' = [request EXCEPT ![r] = p], Good(request[r], p)
        PROVE  [R!Next]_R!vars
    <3>. DEFINE q == request[r]
    <3>1. /\ request \in [Requests -> Record]
          /\ effect' = [effect EXCEPT ![r] = p.effect]
          /\ reply' = [reply EXCEPT ![r] = p.reply]
          /\ effect[r] = q.effect /\ reply[r] = q.reply
          /\ effect = [effect EXCEPT ![r] = q.effect]
          /\ reply = [reply EXCEPT ![r] = q.reply]
      BY <2>2 DEF IInv, TypeOK, Record
    <3>. HIDE DEF effect, reply, q
    <3>2. CASE p.effect = q.effect /\ p.reply = q.reply
      BY <3>1, <3>2 DEF R!vars, effect, reply
    <3>3. CASE /\ q.effect = "none" /\ q.reply # "refused"
               /\ p.effect \in {"ok", "error"} /\ p.reply = q.reply
      <4>1. R!Execute(r)
        BY <3>1, <3>3 DEF R!Execute, effect, reply
      <4>. QED
        BY <4>1 DEF R!Next
    <3>4. CASE /\ q.effect # "none" /\ q.reply = "none"
               /\ p.effect = q.effect /\ p.reply = q.effect
      <4>1. R!Answer(r)
        BY <3>1, <3>4 DEF R!Answer, effect, reply
      <4>. QED
        BY <4>1 DEF R!Next
    <3>5. CASE /\ q.reply = "none" /\ p.effect = q.effect
               /\ p.reply = "unknown"
      <4>1. R!GiveUp(r)
        BY <3>1, <3>5 DEF R!GiveUp, effect, reply
      <4>. QED
        BY <4>1 DEF R!Next
    <3>6. CASE /\ q.reply = "none" /\ p.effect = q.effect
               /\ p.reply = "refused" /\ q.effect = "none"
      <4>1. R!Refuse(r)
        BY <3>1, <3>6 DEF R!Refuse, effect, reply
      <4>. QED
        BY <4>1 DEF R!Next
    <3>. QED
      BY <2>2, <3>2, <3>3, <3>4, <3>5, <3>6 DEF Good, RpcStep, q
  <2>. QED
    BY <2>1, <2>2, Steps
<1>. QED
  BY <1>1, <1>2, Initially, Inductive, PTL DEF Spec, ImplementsRpc, R!Spec
=============================================================================
