---- MODULE MCInstances ----
EXTENDS TwoInstances, MCReconciler
====
