---------------------------- MODULE MCCheckout ----------------------------
EXTENDS Checkout
=============================================================================
