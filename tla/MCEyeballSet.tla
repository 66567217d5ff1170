---- MODULE MCEyeballSet ----
EXTENDS EyeballSet
====
