---- MODULE MCServiceReadiness ----
EXTENDS ServiceReadiness
====
