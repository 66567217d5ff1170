---- MODULE MCServerRequests ----
EXTENDS ServerRequests
====
