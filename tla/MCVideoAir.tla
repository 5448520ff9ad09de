---- MODULE MCVideoAir ----
EXTENDS VideoAir
====
