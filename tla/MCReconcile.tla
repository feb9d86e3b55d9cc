---------------------------- MODULE MCReconcile ----------------------------
(***************************************************************************)
(* Small instances of Reconcile for TLC.                                   *)
(***************************************************************************)
EXTENDS Reconcile
LOCAL INSTANCE TLC

CONSTANTS api, www, blog,       \* names, in this order; blog in a second zone
          lab, shop,            \* zones
          t1, t2, t3,           \* tunnels, t3 one of another account
          caddyTLS, caddyHTTP, notFound,
          docs,                 \* a path
          http2, no,            \* an option, and a value that is not true
          a1, a2                \* accounts

MCRank == api :> 1 @@ www :> 2 @@ blog :> 3
MCZoneOf == api :> lab @@ www :> lab @@ blog :> shop
MCZoneRank == lab :> 1 @@ shop :> 2
MCZoneAccount == lab :> a1 @@ shop :> a1
MCTunnelAccount == t1 :> a1 @@ t2 :> a1 @@ t3 :> a2

On(t, service) == [tunnel |-> t, service |-> service]
AtAddress == [tunnel |-> NoTunnel, service |-> Undeclared]
NoHosts == [h \in {} |-> 0]

Conf(hosts, prune, default) ==
  [hosts |-> hosts, prune |-> prune, registered |-> {t1, t2, t3}, default |-> default,
   token |-> TRUE, account |-> NoAccount]

R(h, service, path, request) ==
  [hostname |-> h, service |-> service, path |-> path, originRequest |-> request]
CatchAll == R(NoHost, notFound, NoPath, Absent)
Remote(rules) == [source |-> "cloudflare", ingress |-> rules]
Locally(rules) == [source |-> "local", ingress |-> rules]
Tuned == http2 :> Yes
OneRule == <<R(www, caddyHTTP, NoPath, Tuned), CatchAll>>

----------------------------------------------------------------------------
(* Two zones, three tunnels, hosts that come, go and move.                 *)

ManyConfigs ==
  { Conf(www :> On(t1, caddyTLS) @@ api :> On(t1, Undeclared) @@ blog :> On(t2, Undeclared),
         {lab, shop}, caddyHTTP),
    Conf(www :> AtAddress @@ api :> On(t2, Undeclared), {lab}, Undeclared),
    Conf(www :> AtAddress @@ api :> On(t1, caddyTLS), {shop}, caddyTLS),
    Conf(NoHosts, {lab, shop}, Undeclared),
    [Conf(api :> On(t1, Undeclared), {lab}, Undeclared) EXCEPT !.registered = {t1}],
    [Conf(www :> On(t1, caddyTLS), {lab}, Undeclared) EXCEPT !.token = FALSE],
    [Conf(api :> On(t3, caddyTLS), {lab}, Undeclared) EXCEPT !.account = a2] }

ManyDNS ==
  { www :> t1 @@ api :> Address @@ blog :> Nothing,
    www :> t2 @@ api :> t1 @@ blog :> t1 }

ManySetups ==
  { t1 :> Remote(<<>>) @@ t2 :> Remote(OneRule) @@ t3 :> Locally(<<>>),
    t1 :> Remote(<<R(blog, caddyTLS, docs, Tuned), R(www, caddyHTTP, NoPath, SNI :> no),
                   R(blog, caddyHTTP, NoPath, Absent), CatchAll>>)
      @@ t2 :> Remote(<<R(www, caddyTLS, NoPath, Absent), R(NoHost, caddyHTTP, docs, Absent),
                        CatchAll>>)
      @@ t3 :> Remote(<<CatchAll>>) }

----------------------------------------------------------------------------
(* The instances that show where a document and the code disagree.         *)

NoRecords == { [h \in Hostnames |-> Nothing] }
Rest == t2 :> Remote(<<CatchAll>>) @@ t3 :> Remote(<<CatchAll>>)

\* www is served over https, then over http.
SchemeConfigs ==
  { Conf(www :> On(t1, service), {}, Undeclared) : service \in {caddyTLS, caddyHTTP} }
SchemeSetups == { t1 :> Remote(<<CatchAll>>) @@ Rest }

\* The tunnel has a rule for one path of every host.
PathConfigs == { Conf(www :> On(t1, caddyTLS), {}, Undeclared) }
PathSetups ==
  { t1 :> Remote(<<R(NoHost, caddyHTTP, docs, Absent), CatchAll>>) @@ Rest }

\* The tunnel routes one path of blog to one service, the rest to another.
ForeignSetups ==
  { t1 :> Remote(<<R(blog, caddyHTTP, docs, Absent), R(blog, notFound, NoPath, Absent),
                   CatchAll>>) @@ Rest }

\* www, published through t1, is removed from the configuration.
RemovalConfigs == { Conf(NoHosts, {lab}, Undeclared) }
RemovalDNS == { www :> t1 @@ api :> Nothing @@ blog :> Nothing }
RemovalSetups == { t1 :> Remote(OneRule) @@ Rest }
=============================================================================
