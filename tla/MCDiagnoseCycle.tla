--------------------------- MODULE MCDiagnoseCycle ---------------------------
EXTENDS DiagnoseCycle

(* Two analyzers that share a subject. *)
MCDiagnostics ==
    {[source |-> "OOMKillRecurrence", subject |-> <<"Pod", "p">>, severity |-> "warning"],
     [source |-> "ImagePullAuth", subject |-> <<"Pod", "p">>, severity |-> "critical"]}
MCMatcher ==
    [bySeverity |-> [source |-> "", subject |-> "", severity |-> "warning"]]
MCSetups ==
    {[static |-> {"a"}, learnt |-> {}, ingress |-> {"a"}],
     [static |-> {}, learnt |-> {"a"}, ingress |-> {"a"}],
     [static |-> {}, learnt |-> {}, ingress |-> {"a"}]}
MCSilences == DOMAIN MCMatcher
================================================================================
