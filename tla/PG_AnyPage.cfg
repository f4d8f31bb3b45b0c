\* The console, and a page with three dropdowns, one of them in the navbar.
SPECIFICATION Spec
CONSTANTS
    NumToggles = 3
    Navbar = {1}
    MaxItems = 2
    MaxMessages = 4
INVARIANTS
    OneMenu
    BackdropWhileOpen
    UnreadIsSignalled
