---------------------------- MODULE MCDelivery ----------------------------
\* One service that runs and one that flushes, a clean result and one the
\* pre-commit guard takes for vendor data.
EXTENDS Delivery
=============================================================================
