--------------------------------- MODULE Cart ---------------------------------
(***************************************************************************)
(* The Cart aggregate of domain/cart: for each product its quantity, 0     *)
(* when the cart has no such item.  Names and prices are left out.  A      *)
(* method maps the cart to the next one, or to None for its error.         *)
(***************************************************************************)
EXTENDS Integers

CONSTANTS Products, None

Empty == [p \in Products |-> 0]

NewCart(id, user) == [id |-> id, user |-> user, items |-> Empty]

AddItem(cart, p, q) == IF q <= 0 THEN None ELSE [cart EXCEPT !.items[p] = @ + q]

RemoveItem(cart, p) == IF cart.items[p] = 0 THEN None ELSE [cart EXCEPT !.items[p] = 0]

UpdateQuantity(cart, p, q) ==
    CASE q < 0 -> None
      [] q = 0 -> RemoveItem(cart, p)
      [] q > 0 -> IF cart.items[p] = 0 THEN None ELSE [cart EXCEPT !.items[p] = q]

Clear(cart) == [cart EXCEPT !.items = Empty]

===============================================================================
