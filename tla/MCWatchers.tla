---- MODULE MCWatchers ----
EXTENDS Watchers
====
