----------------------------- MODULE MCIteration -----------------------------
(***************************************************************************)
(* The configurations, flags and replies of the iteration's run.           *)
(***************************************************************************)
EXTENDS Iteration

Step0 == [think |-> Unset, method |-> "", url |-> <<>>, short |-> <<>>, templates |-> {},
          body |-> [json |-> "nil", form |-> "nil", body |-> "nil"], expect |-> {},
          capture |-> <<>>, timeout |-> 0, betweenRequests |-> Unset]

(***************************************************************************)
(* Logging in captures an id that the next request uses; the request after *)
(* the think step has a timeout of its own.                                *)
(***************************************************************************)
Login == [Step0 EXCEPT !.short = [POST |-> <<"/login">>], !.expect = {200},
                       !.body["json"] = "set",
                       !.capture = [id |-> <<Field("ids"), Index(0)>>]]
Reading == [Step0 EXCEPT !.think = Between(0, 2)]
Orders == [Step0 EXCEPT !.url = <<"/orders/", "id">>, !.timeout = 1,
                        !.betweenRequests = Between(2, 3)]

(***************************************************************************)
(* A request whose answer holds the id the next iteration could ask for.   *)
(***************************************************************************)
Browse == [Step0 EXCEPT !.method = "GET", !.url = <<"/items/", "id", "__iteration">>,
                        !.capture = [id |-> <<Field("ids"), Index(0)>>],
                        !.betweenRequests = Fixed(1)]

(***************************************************************************)
(* A URL that is nothing but a variable nobody has set.                    *)
(***************************************************************************)
Dangling == [Step0 EXCEPT !.url = <<"id">>]
Ping == [Step0 EXCEPT !.url = <<"https:", "/ping">>, !.betweenRequests = Fixed(0)]

Named(name, steps) == [name |-> name, weight |-> 0, vars |-> <<>>, steps |-> steps]

File0 == [name |-> "", baseURL |-> "absolute", workers |-> 0, betweenRequests |-> Unset,
          load |-> [executor |-> "", vus |-> 0, duration |-> 1, stages |-> <<>>, rate |-> 0,
                    iterations |-> 0],
          http |-> [timeout |-> 0, maxRedirects |-> 0, followRedirects |-> TRUE,
                    discardBody |-> FALSE, proxy |-> "none"],
          thresholds |-> <<[stat |-> "p95", op |-> "<", metric |-> "http_req_duration"]>>,
          scenarios |-> <<>>]

Shop == [File0 EXCEPT !.scenarios = <<Named("shop", <<Login, Reading, Orders>>),
                                       Named("browse", <<Browse>>)>>]
Loose == [File0 EXCEPT !.baseURL = "none", !.betweenRequests = Between(1, 3),
                       !.http["followRedirects"] = FALSE, !.http["discardBody"] = TRUE,
                       !.scenarios = <<Named("loose", <<Dangling>>), Named("ping", <<Ping>>)>>]

Refusable == {[File0 EXCEPT !.scenarios = <<Named("a", <<Ping>>), Named("a", <<Ping>>)>>],
              [File0 EXCEPT !.scenarios = <<Named("a", <<[Ping EXCEPT !.url = <<"${">>]>>)>>],
              [File0 EXCEPT !.load["vus"] = 8], [File0 EXCEPT !.workers = -1],
              [File0 EXCEPT !.scenarios = <<Named("a", <<[Login EXCEPT !.body["json"] = "empty",
                                                                       !.body["body"] = "set"]>>)>>],
              [File0 EXCEPT !.load["executor"] = "ramping-vus"]}

LateRefused == {[File0 EXCEPT !.baseURL = "relative"],
                [File0 EXCEPT !.http["proxy"] = "unparsable"],
                [File0 EXCEPT !.load["duration"] = -1, !.load["iterations"] = 1]}

AllFiles == {NoFile, File0, Shop, Loose} \cup Refusable \cup LateRefused

(***************************************************************************)
(* Flags that override nothing, describe a whole smoke test, fill in the   *)
(* stages, narrow the scenarios down, or do not parse.                     *)
(***************************************************************************)
NoFlags == [url |-> "none", vus |-> 0, duration |-> 0, iterations |-> 0, rate |-> 0,
            workers |-> 0, timeout |-> 0, stages |-> <<>>, betweenRequests |-> Unset,
            scenarios |-> <<>>, thresholds |-> <<>>]

AllFlags == {NoFlags,
             [NoFlags EXCEPT !.url = "absolute", !.vus = 1, !.duration = 1, !.timeout = 1,
                             !.thresholds = <<[stat |-> "rate", op |-> "<",
                                               metric |-> "http_req_failed"]>>],
             [NoFlags EXCEPT !.thresholds = <<[stat |-> "p95", op |-> "lt", metric |-> "x"]>>],
             [NoFlags EXCEPT !.stages = <<[duration |-> 1, target |-> 2]>>],
             [NoFlags EXCEPT !.scenarios = <<[name |-> "loose", weight |-> 2]>>]}

(***************************************************************************)
(* A document with an id, one with a null for it, an error page, a         *)
(* redirect, and a body longer than the cap.                               *)
(***************************************************************************)
IdDocument(kind) ==
    [kind |-> "object",
     fields |-> [ids |-> [kind |-> "array", items |-> <<[kind |-> kind]>>]]]

Reply0 == [status |-> 200, hops |-> 0, long |-> FALSE, body |-> IdDocument("string")]

AllReplies == {Reply0, [Reply0 EXCEPT !.body = IdDocument("null")],
               [Reply0 EXCEPT !.status = 500, !.body = [kind |-> "text"]],
               [Reply0 EXCEPT !.status = 201], [Reply0 EXCEPT !.hops = 2],
               [Reply0 EXCEPT !.long = TRUE]}

AllNetErrors == {"connection refused", "unexpected EOF"}
=============================================================================
